---- MODULE Spec2Model ----
(***************************************************************************)
(* Storage subsystem of gemini-mcp: the local and the S3 backend           *)
(* (internal/storage), the S3 TTL sweep goroutine, and the path resolver   *)
(* of the server (main.go, resolveInputPath).                              *)
(*                                                                         *)
(* Strings the code inspects or builds (paths, object keys, hashes) are    *)
(* sequences of one-character strings; MIME types and error kinds, which   *)
(* the code only compares, are TLA+ strings.  Time is a natural number of  *)
(* abstract units; a UTC day lasts DayLen units.                           *)
(***************************************************************************)
EXTENDS Integers, Sequences, FiniteSets, TLC

\* ------------------------------------------------------------------ bounds
MaxTime == 2
NumCallers == 2
MaxCloseCalls == 2

\* ------------------------------------------------ configuration (S3Config)
ObjectTTL == 1
PresignTTL == 2
CleanupInterval == 1
DayLen == 4
BaseDir == <<"/", "o">>

\* -------------------------------------------------------------- inputs
Payloads == {<<1, 2>>, <<3>>}
\* the (data, mimeType, prefix) triples handlers pass to Store
StoreArgs == {<<<<1, 2>>, "text/plain", <<"g">>>>, <<<<3>>, "image/png", <<"g">>>>}
Callers == 1..NumCallers

\* ------------------------------------------------------- pure functions
HashHexLen == 64
HashKeyLen == 16
Hex == <<"0", "1", "2", "3", "4", "5", "6", "7",
         "8", "9", "a", "b", "c", "d", "e", "f">>

RECURSIVE ByteSum(_)
ByteSum(d) == IF d = <<>> THEN 0 ELSE Head(d) + ByteSum(Tail(d))

\* sha256.Sum256 followed by hex.EncodeToString: 64 hex characters that depend
\* on every byte and on the length.  The digest itself is abstracted by a
\* mixing function that is injective on Payloads (collision resistance).
Digest(d) ==
    [i \in 1..HashHexLen |-> Hex[((ByteSum(d) * i + Len(d) * 5 + i * i) % 16) + 1]]
DigestTable == [d \in Payloads |-> Digest(d)]

\* Fault-seeded variant: the hash is taken of a checksum of the payload
ContentHashOfSum(d) == Digest(<<ByteSum(d)>>)

\* contentHash := hex.EncodeToString(hash[:])
ContentHash(d) == DigestTable[d]

\* Fault-seeded variant: the key carries 8 characters of the hash
Hash8(d) == SubSeq(ContentHash(d), 1, 8)

\* contentHash[:16]
Hash16(d) == SubSeq(ContentHash(d), 1, HashKeyLen)

\* Fault-seeded variant: a MIME type the table does not have gets ".bin"
ExtensionOrBin(mimeType) ==
    CASE mimeType = "image/png" -> <<".", "p", "n", "g">>
      [] mimeType = "image/jpeg" -> <<".", "j", "p", "g">>
      [] mimeType = "image/webp" -> <<".", "w", "e", "b", "p">>
      [] mimeType = "image/gif" -> <<".", "g", "i", "f">>
      [] mimeType = "video/mp4" -> <<".", "m", "p", "4">>
      [] mimeType = "video/webm" -> <<".", "w", "e", "b", "m">>
      [] mimeType = "application/json" -> <<".", "j", "s", "o", "n">>
      [] OTHER -> <<".", "b", "i", "n">>

ExtensionFromMIME(mimeType) ==
    CASE mimeType = "image/png" -> <<".", "p", "n", "g">>
      [] mimeType = "image/jpeg" -> <<".", "j", "p", "g">>
      [] mimeType = "image/webp" -> <<".", "w", "e", "b", "p">>
      [] mimeType = "image/gif" -> <<".", "g", "i", "f">>
      [] mimeType = "video/mp4" -> <<".", "m", "p", "4">>
      [] mimeType = "video/webm" -> <<".", "w", "e", "b", "m">>
      [] mimeType = "application/json" -> <<".", "j", "s", "o", "n">>
      [] OTHER -> <<>>

\* fmt.Sprintf("%s_%s%s", prefix, contentHash[:16], ext)
Filename(d, m, p) == p \o <<"_">> \o Hash16(d) \o ExtensionFromMIME(m)

\* The elements of path, from index start on, between its separators.
RECURSIVE Elements(_, _)
Elements(path, start) ==
    LET seps == {i \in start..Len(path) : path[i] = "/"}
    IN  IF seps = {} THEN <<SubSeq(path, start, Len(path))>>
        ELSE LET j == CHOOSE i \in seps : \A k \in seps : i <= k
             IN  <<SubSeq(path, start, j - 1)>> \o Elements(path, j + 1)

\* filepath.Clean over the elements still to read: empty and "." elements
\* are dropped, ".." removes the element before it, is dropped at the root
\* and is kept at the start of a relative path.  out: the elements kept.
RECURSIVE CleanElements(_, _, _)
CleanElements(todo, out, rooted) ==
    IF todo = <<>> THEN out
    ELSE LET e == Head(todo)
             rest == Tail(todo)
         IN  IF e = <<>> \/ e = <<".">>
             THEN CleanElements(rest, out, rooted)
             ELSE IF e = <<".", ".">>
             THEN IF out # <<>> /\ out[Len(out)] # <<".", ".">>
                  THEN CleanElements(rest, SubSeq(out, 1, Len(out) - 1),
                                     rooted)
                  ELSE IF rooted
                  THEN CleanElements(rest, out, rooted)
                  ELSE CleanElements(rest, Append(out, e), rooted)
             ELSE CleanElements(rest, Append(out, e), rooted)

\* strings.Join(elems, "/")
RECURSIVE JoinElements(_)
JoinElements(elems) ==
    IF elems = <<>> THEN <<>>
    ELSE IF Len(elems) = 1 THEN Head(elems)
    ELSE Head(elems) \o <<"/">> \o JoinElements(Tail(elems))

\* Clean has nothing to change in path (its lazybuf never diverges from the
\* input): no element is empty, "." or "..", and no separator ends the path.
Unchanged(path) ==
    /\ path # <<>>
    /\ \A i \in 1..Len(path) :
          /\ path[i] = "/" => (i < Len(path) /\ path[i + 1] # "/")
          /\ (path[i] = "." /\ (i = 1 \/ path[i - 1] = "/")) =>
                /\ i < Len(path)
                /\ path[i + 1] # "/"
                /\ path[i + 1] = "." =>
                      (i + 1 < Len(path) /\ path[i + 2] # "/")

\* filepath.Clean(path) on a Unix system
Clean(path) ==
    LET rooted == Len(path) > 0 /\ path[1] = "/"
        kept == JoinElements(CleanElements(Elements(path, 1), <<>>, rooted))
        out == IF rooted THEN <<"/">> \o kept ELSE kept
    IN  IF Unchanged(path) THEN path
        ELSE IF out = <<>> THEN <<".">> ELSE out

\* Fault-seeded variant: every name is mapped to one file of the directory
JoinOneFile(dir, name) == dir \o <<"/", "f">>

\* filepath.Join(dir, name): the non-empty elements joined by a separator,
\* then Clean.
Join(dir, name) ==
    IF dir = <<>> /\ name = <<>> THEN <<>>
    ELSE IF name = <<>> THEN Clean(dir)
    ELSE IF dir = <<>> THEN Clean(name)
    ELSE Clean(dir \o <<"/">> \o name)

Digit == <<"0", "1", "2", "3", "4", "5", "6", "7", "8", "9">>
Pad2(n) == <<Digit[(n \div 10) + 1], Digit[(n % 10) + 1]>>

\* Fault-seeded variant: the date is taken in a zone one time unit east of UTC
DatePathLocalZone(t) ==
    LET day == (t + 1) \div DayLen
    IN  IF day = 0
        THEN <<"2", "0", "2", "4", "/">> \o Pad2(12) \o <<"/">> \o Pad2(31)
        ELSE <<"2", "0", "2", "5", "/">> \o Pad2(1) \o <<"/">> \o Pad2(day)

\* now.Format("2006/01/02") for the UTC day that holds time t; time 0 is
\* 2024-12-31T00:00Z, so the days of the model cross a month and a year.
DatePath(t) ==
    LET day == t \div DayLen
    IN  IF day = 0
        THEN <<"2", "0", "2", "4", "/">> \o Pad2(12) \o <<"/">> \o Pad2(31)
        ELSE <<"2", "0", "2", "5", "/">> \o Pad2(1) \o <<"/">> \o Pad2(day)

\* fmt.Sprintf("%s/%s", datePath, filename)
RemoteKey(t, d, m, p) == DatePath(t) \o <<"/">> \o Filename(d, m, p)

\* strings.HasPrefix(inputPath, "/")
IsAbsolute(path) == Len(path) > 0 /\ path[1] = "/"

\* Fault-seeded variant: the comparison includes the boundary
ExpiredAtTTL(age, ttl) == age >= ttl

\* age > s.objectTTL
Expired(age, ttl) == age > ttl

\* ------------------------------------------------ byte-wise string order
Alphabet == <<".", "/", "0", "1", "2", "3", "4", "5", "6", "7", "8", "9",
              "_", "a", "b", "c", "d", "e", "f", "g", "h", "i", "j", "k",
              "l", "m", "n", "o", "p", "q", "r", "s", "t", "u", "v", "w",
              "x", "y", "z">>
Rank == [c \in {Alphabet[i] : i \in 1..Len(Alphabet)} |->
           CHOOSE i \in 1..Len(Alphabet) : Alphabet[i] = c]

\* a < b in the byte order S3 lists keys in
LexLess(a, b) ==
    LET n == IF Len(a) < Len(b) THEN Len(a) ELSE Len(b)
        diff == {i \in 1..n : a[i] # b[i]}
    IN  IF diff = {}
        THEN Len(a) < Len(b)
        ELSE LET i == CHOOSE j \in diff : \A k \in diff : j <= k
             IN  Rank[a[i]] < Rank[b[i]]

RECURSIVE SortedKeys(_)
SortedKeys(S) ==
    IF S = {} THEN <<>>
    ELSE LET k == CHOOSE x \in S : \A y \in S \ {x} : LexLess(x, y)
         IN  <<k>> \o SortedKeys(S \ {k})

\* ------------------------------------------------------------- state
VARIABLES
    backend,      \* "local" | "remote": the backend NewStorage returned
    now,          \* wall clock (UTC)
    bucket,       \* S3 bucket: object key -> object
    fs,           \* filesystem: path -> file content
    stopCleanup,  \* the stop channel: "open" | "closed"
    sweepPc,      \* sweep goroutine: "select" | "tick" | "stopped" | "none"
    tickerC,      \* a tick is buffered in ticker.C
    lastTick,     \* when the ticker last fired
    tickNow,      \* cleanupExpiredObjects: now
    listed,       \* cleanupExpiredObjects: entries still to come from objectCh
    deletedCount, \* cleanupExpiredObjects: deletedCount
    errorCount,   \* cleanupExpiredObjects: errorCount
    summary,      \* the summary line logged by the step just taken, if any
    calls,        \* LocalStorage.Store calls in progress, per caller
    closeCalls,   \* number of Close() calls made
    held,         \* cleanup function a handler holds after resolveInputPath
    ret,          \* what the call that returned in the step just taken returned
    handler,      \* a tool handler that resolves its input images
    boot,         \* NewStorage: the configuration, the bucket, each instance
    http,         \* the HTTP transport: the tokens, the last request served
    veo           \* a video handler: its operation, its polling loop

vars == <<backend, now, bucket, fs, stopCleanup, sweepPc, tickerC, lastTick,
          tickNow, listed, deletedCount, errorCount, summary, calls,
          closeCalls, held, ret, handler, boot, http, veo>>

\* ------------------------------------------------------------ records
NoResult == [location |-> <<>>, objectKey |-> <<>>, contentHash |-> <<>>,
             mimeType |-> "", size |-> 0, expiresAt |-> -1]

\* StorageResult; expiresAt = -1 stands for a nil *time.Time
StorageResult(location, objectKey, contentHash, mimeType, size, expiresAt) ==
    [location |-> location, objectKey |-> objectKey,
     contentHash |-> contentHash, mimeType |-> mimeType, size |-> size,
     expiresAt |-> expiresAt]

\* (path, cleanup, err) as Retrieve returns them; cleanup is "nil" (no
\* function), "noop" (func() {}) or "removeTemp" (removes the download).
Retrieved(path, cleanup, err) == [path |-> path, cleanup |-> cleanup, err |-> err]
NoRetrieve == Retrieved(<<>>, "nil", "")

\* What a call returned.  op: the call; key: its key or identifier; data:
\* the payload of Store; err: "" for a nil error, else the kind of error
\* returned ("panic": the call panicked instead of returning); cause: the
\* outcome of the library call underneath; existed: whether the target
\* existed when the call began; path, cleanup: the other results of
\* resolveInputPath; called: whether it invoked the backend's Retrieve, and
\* got: what Retrieve returned; res: the StorageResult of Store; mimeType,
\* prefix: the other two arguments of a Store call.
Ret(op, key, data, err, cause, existed, path, cleanup, called, got, res) ==
    [op |-> op, key |-> key, data |-> data, err |-> err, cause |-> cause,
     existed |-> existed, path |-> path, cleanup |-> cleanup,
     called |-> called, got |-> got, res |-> res, mimeType |-> "",
     prefix |-> <<>>]

NoRet == Ret("none", <<>>, <<>>, "", "", FALSE, <<>>, "nil", FALSE,
             NoRetrieve, NoResult)

\* existed, for Store: the file or object the call wrote is still the one
\* under its name when the call returns (no Delete removed it meanwhile).
StoreRet(key, d, m, p, err, cause, existed, res) ==
    [Ret("Store", key, d, err, cause, existed, <<>>, "nil", FALSE,
         NoRetrieve, res) EXCEPT !.mimeType = m, !.prefix = p]

DeleteRet(key, err, cause, existed) ==
    Ret("Delete", key, <<>>, err, cause, existed, <<>>, "nil", FALSE,
        NoRetrieve, NoResult)

\* client.RemoveObject of the sweep returned cause for key
RemoveRet(key, cause, existed) ==
    Ret("RemoveObject", key, <<>>, "", cause, existed, <<>>, "nil", FALSE,
        NoRetrieve, NoResult)

CloseRet(err) ==
    Ret("Close", <<>>, <<>>, err, "", FALSE, <<>>, "nil", FALSE, NoRetrieve,
        NoResult)

NoSummary == [logged |-> FALSE, deleted |-> 0, errors |-> 0]

IdleCall == [pc |-> "idle", path |-> <<>>, data |-> <<>>, mimeType |-> "",
             prefix |-> <<>>, name |-> <<>>, attached |-> FALSE]

\* A handler between two requests.  pc: "idle" | "running" | "returned";
\* tool: the handler; todo: the input paths still to resolve; cleanups: the
\* cleanup functions it has deferred; obtained: those resolveInputPath
\* returned to it; runs: how often each of the obtained ones has run; err:
\* the error it returned.
IdleHandler == [pc |-> "idle", tool |-> "", todo |-> <<>>, cleanups |-> <<>>,
                obtained |-> <<>>, runs |-> <<>>, err |-> ""]

Put(f, k, v) == [x \in DOMAIN f \cup {k} |-> IF x = k THEN v ELSE f[x]]
Drop(f, k) == [x \in DOMAIN f \ {k} |-> f[x]]

\* ---------------------------------------------------- parseEndpoint
\* strings.HasPrefix
HasPrefix(s, prefix) ==
    Len(s) >= Len(prefix) /\ SubSeq(s, 1, Len(prefix)) = prefix

\* the characters a scheme may consist of: letters, and after the first
\* character digits, "+", "-" and "."
Letters == {"a", "f", "h", "m", "p", "s", "t", "H", "P", "S", "T"}
SchemeMarks == {"1", "3", "9", "+", "-", "."}

\* strings.ToLower
Lower(c) ==
    CASE c = "H" -> "h" [] c = "P" -> "p" [] c = "S" -> "s" [] c = "T" -> "t"
      [] OTHER -> c
ToLower(s) == [i \in DOMAIN s |-> Lower(s[i])]

\* the index of the first c in s, or 0
Index(s, c) ==
    IF \E i \in DOMAIN s : s[i] = c
    THEN CHOOSE i \in DOMAIN s : s[i] = c /\ \A j \in 1..(i - 1) : s[j] # c
    ELSE 0

\* net/url getScheme: the scheme ends at the first ":", if only scheme
\* characters precede it; a ":" in front is an error.
GetScheme(rawURL) ==
    LET stops == {i \in DOMAIN rawURL :
                     /\ rawURL[i] \notin Letters
                     /\ ~(rawURL[i] \in SchemeMarks /\ i > 1)}
        none == [scheme |-> <<>>, rest |-> rawURL, err |-> ""]
    IN  IF stops = {} THEN none
        ELSE LET i == CHOOSE k \in stops : \A j \in stops : k <= j
             IN  IF rawURL[i] # ":" THEN none
                 ELSE IF i = 1
                 THEN [scheme |-> <<>>, rest |-> <<>>, err |-> "scheme"]
                 ELSE [scheme |-> SubSeq(rawURL, 1, i - 1),
                       rest |-> SubSeq(rawURL, i + 1, Len(rawURL)),
                       err |-> ""]

\* net/url Parse, for a URL without query, fragment and user information:
\* the scheme in lower case; after "//" the authority up to the next "/" as
\* the host; a rest that does not begin with "/" is opaque after a scheme,
\* and without a scheme an error if its first segment contains ":".
Parse(rawURL) ==
    LET g == GetScheme(rawURL)
        scheme == ToLower(g.scheme)
        rest == g.rest
        slash == Index(rest, "/")
        segment == IF slash = 0 THEN rest ELSE SubSeq(rest, 1, slash - 1)
        after == SubSeq(rest, 3, Len(rest))
        stop == Index(after, "/")
        authority == IF stop = 0 THEN after ELSE SubSeq(after, 1, stop - 1)
    IN  IF g.err # "" THEN [scheme |-> <<>>, host |-> <<>>, err |-> g.err]
        ELSE IF ~HasPrefix(rest, <<"/">>) /\ scheme # <<>>
        THEN [scheme |-> scheme, host |-> <<>>, err |-> ""]
        ELSE IF ~HasPrefix(rest, <<"/">>) /\ Index(segment, ":") # 0
        THEN [scheme |-> <<>>, host |-> <<>>, err |-> "colon"]
        ELSE IF HasPrefix(rest, <<"/", "/">>)
        THEN [scheme |-> scheme, host |-> authority, err |-> ""]
        ELSE [scheme |-> scheme, host |-> <<>>, err |-> ""]

Https == <<"h", "t", "t", "p", "s">>

\* parseEndpoint
ParseEndpoint(endpoint, defaultUseSSL) ==
    LET parsed == Parse(endpoint)
    IN  IF parsed.err = "" /\ parsed.scheme # <<>>
        THEN [host |-> IF parsed.host = <<>> THEN endpoint ELSE parsed.host,
              useSSL |-> parsed.scheme = Https]
        ELSE [host |-> endpoint, useSSL |-> defaultUseSSL]

\* S3_ENDPOINT=minio:9000 with S3_USE_SSL at its default
DefaultEndpoint == <<"m", ":", "9">>
DefaultUseSSL == TRUE

\* ------------------------------------------------------- LoadConfig
\* getEnvOrDefault("TRANSPORT", "stdio"); env: the variable ("": unset)
EnvTransport(env) == IF env = "" THEN "stdio" ELSE env

\* config.S3Enabled = S3Endpoint != "" && S3AccessKeyID != "" &&
\* S3SecretAccessKey != "" && (Transport == "http" || Transport == "sse")
S3Enabled(endpoint, accessKeyID, secretAccessKey, transport) ==
    /\ endpoint # <<>>
    /\ accessKeyID # <<>>
    /\ secretAccessKey # <<>>
    /\ transport \in {"http", "sse"}

\* main: if *transport != "" { config.Transport = *transport }
Override(transport, flag) == IF flag # "" THEN flag ELSE transport

\* a server in HTTP mode with S3 configured (s3), or one in stdio mode
DefaultTransport(s3) == IF s3 THEN "http" ELSE "stdio"
DefaultKey(s3) == IF s3 THEN <<"k">> ELSE <<>>

\* ------------------------------------------------- server instances
\* The server instances that share the bucket: the one whose backend the
\* other variables follow, and a second one.
Self == "self"
Peer == "peer"
Instances == {Self, Peer}

\* NewStorage of one instance.  pc: "new" (not called yet) | "checked"
\* (BucketExists has answered) | "done" | "failed"; exists: the answer of
\* BucketExists; err: the error NewStorage returned; storage: the backend it
\* returned ("nil": none); sweeps: the sweep goroutines it started; host,
\* secure: the endpoint and the Secure option it gave to minio.New.
NewInstance ==
    [pc |-> "new", exists |-> FALSE, err |-> "", storage |-> "nil",
     sweeps |-> 0, host |-> <<>>, secure |-> FALSE]

\* endpoint, useSSL := parseEndpoint(cfg.Endpoint, cfg.UseSSL)
Dialled(inst, endpoint, defaultUseSSL) ==
    LET p == ParseEndpoint(endpoint, defaultUseSSL)
    IN  [inst EXCEPT !.host = p.host, !.secure = p.useSSL]

\* s := &S3Storage{...} / &LocalStorage{...}; return s, nil
Constructed(inst, b) == [inst EXCEPT !.pc = "done", !.storage = b]

\* Fault-seeded variant: the constructor starts the goroutine twice
GoSweepTwice(inst) == [inst EXCEPT !.sweeps = @ + 2]

\* go s.startCleanupRoutine()
GoSweep(inst) == [inst EXCEPT !.sweeps = @ + 1]

\* boot once NewStorage has returned backend b to this instance (the other
\* instance has not called it).
Built(b) ==
    [s3Enabled |-> b = "remote", bucketExists |-> b = "remote",
     endpoint |-> DefaultEndpoint, useSSL |-> DefaultUseSSL,
     transport |-> DefaultTransport(b = "remote"),
     accessKeyID |-> DefaultKey(b = "remote"),
     secretAccessKey |-> DefaultKey(b = "remote"),
     inst |-> [i \in Instances |->
                 IF i # Self THEN NewInstance
                 ELSE IF b = "remote"
                      THEN GoSweep(Constructed(
                              [Dialled(NewInstance, DefaultEndpoint,
                                       DefaultUseSSL)
                                 EXCEPT !.exists = TRUE], b))
                      ELSE Constructed(NewInstance, b)]]

\* ------------------------------------------------- the HTTP transport
\* tokens: config.ServiceTokens as a set; header: the Authorization header
\* of the request served last (<<>>: none); status: the status written for
\* it (0: no request yet); served: whether the wrapped handler was invoked.
ServedBy(tokens, header, status, served) ==
    [tokens |-> tokens, header |-> header, status |-> status,
     served |-> served]

\* no token configured, no request yet
NoHTTP == ServedBy({}, <<>>, 0, FALSE)

\* ------------------------------------------------- the video handlers
\* A *genai.GenerateVideosOperation.  nil: the nil pointer; done: Done;
\* error: Error != nil; videos: len(Response.GeneratedVideos).
Operation(done, error, videos) ==
    [nil |-> FALSE, done |-> done, error |-> error, videos |-> videos]

NilOperation == [nil |-> TRUE, done |-> FALSE, error |-> FALSE, videos |-> 0]

\* A video handler.  pc: "idle" | "loop" | "broke" | "returned" | "panicked";
\* tool: the handler; operation: its variable operation; last: the last
\* state of the operation the API reported; i: the loop counter; checks: the
\* GetVideosOperation calls made; failed: the last of them returned an
\* error; status: the status of the output ("": none yet).
NoVeo == [pc |-> "idle", tool |-> "", operation |-> NilOperation,
          last |-> NilOperation, i |-> 0, checks |-> 0, failed |-> FALSE,
          status |-> ""]

\* ------------------------------------------------- files outside the store
AbsHere == <<"/", "a">>
AbsGone == <<"/", "x">>
RelOnly == <<"r">>
Nowhere == <<"n">>
TempPath == <<"/", "t">>
\* a file in the working directory whose relative name equals an object key
RelLocalTwin == Filename(<<3>>, "image/png", <<"g">>)
RelRemoteTwin == RemoteKey(0, <<3>>, "image/png", <<"g">>)

InitialFiles ==
    LET names == {AbsHere, RelOnly, RelLocalTwin, RelRemoteTwin}
    IN  [x \in names |-> <<9>>]

\* ------------------------------------------------------------- Init
\* NewStorage returned a backend: NewLocalStorage, or NewS3Storage, which
\* made the stop channel and started the sweep goroutine.
Init ==
    /\ backend \in {"local", "remote"}
    /\ now = 0
    /\ bucket = [k \in {} |-> 0]
    /\ fs = InitialFiles
    /\ stopCleanup = "open"
    /\ sweepPc = IF backend = "remote" THEN "select" ELSE "none"
    /\ tickerC = FALSE
    /\ lastTick = 0
    /\ tickNow = 0
    /\ listed = <<>>
    /\ deletedCount = 0
    /\ errorCount = 0
    /\ summary = NoSummary
    /\ calls = [c \in Callers |-> IdleCall]
    /\ closeCalls = 0
    /\ held = "none"
    /\ ret = NoRet
    /\ handler = IdleHandler
    /\ boot = Built(backend)
    /\ http = NoHTTP
    /\ veo = NoVeo

\* --------------------------------------------------------------- time
\* The clock advances; time.Ticker puts a tick into ticker.C (capacity 1)
\* every cleanupInterval until ticker.Stop().  Only the S3 backend reads the
\* clock.  The clock is followed up to time last.
ClockStep(last) ==
    /\ backend = "remote"
    /\ now < last
    /\ now' = now + 1
    /\ IF sweepPc \in {"select", "tick"} /\ now' - lastTick >= CleanupInterval
       THEN tickerC' = TRUE /\ lastTick' = now'
       ELSE UNCHANGED <<tickerC, lastTick>>
    /\ ret' = NoRet
    /\ summary' = NoSummary
    /\ UNCHANGED <<veo, http, boot, handler, backend, bucket, fs, stopCleanup,
                   sweepPc, tickNow, listed, deletedCount, errorCount, calls,
                   closeCalls, held>>

Advance == ClockStep(MaxTime)

\* ------------------------------------------------------- S3Storage
\* Fault-seeded variant: the URL expiry is taken from the object TTL
ExpiresAtObjectTTL(t) == t + ObjectTTL

\* expiresAt := now.Add(s.presignTTL)
ExpiresAt(t) == t + PresignTTL

\* Store: PutObject, then PresignedGetObject, then the StorageResult.
\* putFails / presignFails are the outcomes of the two client calls.
S3Store(d, m, p, putFails, presignFails) ==
    LET contentHash == ContentHash(d)
        objectKey == RemoteKey(now, d, m, p)
        object == [data |-> d, lastModified |-> now, contentType |-> m,
                   createdAt |-> now, expiresAt |-> now + ObjectTTL]
        url == <<"u", "/">> \o objectKey
    IN  /\ backend = "remote"
        /\ IF putFails
           THEN /\ ret' = StoreRet(objectKey, d, m, p, "upload", "network",
                                FALSE, NoResult)
                /\ UNCHANGED bucket
           ELSE /\ bucket' = Put(bucket, objectKey, object)
                /\ ret' = IF presignFails
                          THEN StoreRet(objectKey, d, m, p, "presign",
                                        "network", TRUE, NoResult)
                          ELSE StoreRet(objectKey, d, m, p, "", "nil", TRUE,
                                        StorageResult(url, objectKey,
                                                      contentHash, m, Len(d),
                                                      ExpiresAt(now)))
        /\ summary' = NoSummary
        /\ UNCHANGED <<veo, http, boot, handler, backend, now, fs, stopCleanup,
                       sweepPc, tickerC, lastTick, tickNow, listed,
                       deletedCount, errorCount, calls, closeCalls, held>>

\* Fault-seeded variant: Delete reports a missing object
S3DeleteErrNotFound(removeErr, existed) ==
    IF removeErr # "nil" \/ ~existed THEN "delete" ELSE ""

\* The error Delete returns, given what client.RemoveObject returned
\* (existed: whether the object was in the bucket; the code does not look).
S3DeleteErr(removeErr, existed) == IF removeErr # "nil" THEN "delete" ELSE ""

\* Fault-seeded variant: Delete waits for a lock that a tick holds
S3DeleteBetweenTicks(objectKey, fails) ==
    LET existed == objectKey \in DOMAIN bucket
        removeErr == IF fails THEN "network" ELSE "nil"
    IN  /\ backend = "remote"
        /\ sweepPc # "tick"
        /\ bucket' = IF fails THEN bucket ELSE Drop(bucket, objectKey)
        /\ ret' = DeleteRet(objectKey, S3DeleteErr(removeErr, existed),
                            removeErr, existed)
        /\ summary' = NoSummary
        /\ UNCHANGED <<veo, http, boot, handler, backend, now, fs, stopCleanup,
                       sweepPc, tickerC, lastTick, tickNow, listed,
                       deletedCount, errorCount, calls, closeCalls, held>>

\* Delete: client.RemoveObject.  S3 answers the DELETE of a missing key with
\* success, so RemoveObject returns nil for it; fails: the request failed.
S3Delete(objectKey, fails) ==
    LET existed == objectKey \in DOMAIN bucket
        removeErr == IF fails THEN "network" ELSE "nil"
    IN  /\ backend = "remote"
        /\ bucket' = IF fails THEN bucket ELSE Drop(bucket, objectKey)
        /\ ret' = DeleteRet(objectKey, S3DeleteErr(removeErr, existed),
                            removeErr, existed)
        /\ summary' = NoSummary
        /\ UNCHANGED <<veo, http, boot, handler, backend, now, fs, stopCleanup,
                       sweepPc, tickerC, lastTick, tickNow, listed,
                       deletedCount, errorCount, calls, closeCalls, held>>

\* close(s.stopCleanup): closing a closed channel panics.
CloseChannel(ch) == IF ch = "open" THEN "" ELSE "panic"

\* Close: close(s.stopCleanup); return nil.  The panic of a second close
\* unwinds the calling goroutine; the model follows the backend while the
\* process lives (the caller recovers).
S3Close ==
    /\ backend = "remote"
    /\ closeCalls < MaxCloseCalls
    /\ closeCalls' = closeCalls + 1
    /\ stopCleanup' = "closed"
    /\ ret' = CloseRet(CloseChannel(stopCleanup))
    /\ summary' = NoSummary
    /\ UNCHANGED <<veo, http, boot, handler, backend, now, bucket, fs, sweepPc,
                   tickerC, lastTick, tickNow, listed, deletedCount,
                   errorCount, calls, held>>

\* ------------------------------------------------ the sweep goroutine
ListError == [key |-> <<>>, lastModified |-> 0, err |-> TRUE]

\* client.ListObjects(Recursive): the objects in key order; on a failed
\* request the client sends one entry carrying the error and ends the
\* listing (n entries were delivered before it).
ListObjects(b, n, fails) ==
    LET keys == SortedKeys(DOMAIN b)
        all == [i \in 1..Len(keys) |->
                  [key |-> keys[i], lastModified |-> b[keys[i]].lastModified,
                   err |-> FALSE]]
    IN  IF fails THEN SubSeq(all, 1, n) \o <<ListError>> ELSE all

\* select: case <-ticker.C, then the head of cleanupExpiredObjects.
SweepTick ==
    /\ sweepPc = "select"
    /\ tickerC
    /\ tickerC' = FALSE
    /\ sweepPc' = "tick"
    /\ tickNow' = now
    /\ deletedCount' = 0
    /\ errorCount' = 0
    /\ \E fails \in BOOLEAN :
         \E n \in 0..(IF fails THEN Cardinality(DOMAIN bucket) ELSE 0) :
            listed' = ListObjects(bucket, n, fails)
    /\ ret' = NoRet
    /\ summary' = NoSummary
    /\ UNCHANGED <<veo, http, boot, handler, backend, now, bucket, fs,
                   stopCleanup, lastTick, calls, closeCalls, held>>

\* Fault-seeded variant: the removal of a missing key is answered NoSuchKey
RemoveObjectErrNoSuchKey(existed, fails) ==
    IF fails THEN "network" ELSE IF existed THEN "nil" ELSE "NoSuchKey"

\* What client.RemoveObject returns.  S3 answers the DELETE of a key that is
\* not there with success, as it does for one that is; fails: the request
\* failed.
RemoveObjectErr(existed, fails) == IF fails THEN "network" ELSE "nil"

\* One iteration of "for object := range objectCh"; fails: the RemoveObject
\* request failed.
SweepEntry ==
    /\ sweepPc = "tick"
    /\ listed # <<>>
    /\ LET object == Head(listed)
           age == tickNow - object.lastModified
           existed == object.key \in DOMAIN bucket
       IN  /\ listed' = Tail(listed)
           /\ IF object.err
              THEN /\ errorCount' = errorCount + 1
                   /\ ret' = NoRet
                   /\ UNCHANGED <<bucket, deletedCount>>
              ELSE IF Expired(age, ObjectTTL)
              THEN \E fails \in BOOLEAN :
                     LET err == RemoveObjectErr(existed, fails)
                     IN  /\ ret' = RemoveRet(object.key, err, existed)
                         /\ bucket' = IF fails THEN bucket
                                      ELSE Drop(bucket, object.key)
                         /\ IF err # "nil"
                            THEN /\ errorCount' = errorCount + 1
                                 /\ UNCHANGED deletedCount
                            ELSE /\ deletedCount' = deletedCount + 1
                                 /\ UNCHANGED errorCount
              ELSE /\ ret' = NoRet
                   /\ UNCHANGED <<bucket, deletedCount, errorCount>>
    /\ summary' = NoSummary
    /\ UNCHANGED <<veo, http, boot, handler, backend, now, fs, stopCleanup,
                   sweepPc, tickerC, lastTick, tickNow, calls, closeCalls,
                   held>>

\* Fault-seeded variant: the summary is logged only when something was deleted
SummaryOnDeleted(deleted, errors) ==
    IF deleted > 0
    THEN [logged |-> TRUE, deleted |-> deleted, errors |-> errors]
    ELSE NoSummary

\* if deletedCount > 0 || errorCount > 0 { log.Printf("S3 cleanup completed:
\* deleted %d objects, %d errors", deletedCount, errorCount) }
Summary(deleted, errors) ==
    IF deleted > 0 \/ errors > 0
    THEN [logged |-> TRUE, deleted |-> deleted, errors |-> errors]
    ELSE NoSummary

\* objectCh is closed: the summary line, cleanupExpiredObjects returns (its
\* locals are gone), and back to the select.
SweepFinish ==
    /\ sweepPc = "tick"
    /\ listed = <<>>
    /\ sweepPc' = "select"
    /\ tickNow' = 0
    /\ deletedCount' = 0
    /\ errorCount' = 0
    /\ summary' = Summary(deletedCount, errorCount)
    /\ ret' = NoRet
    /\ UNCHANGED <<veo, http, boot, handler, backend, now, bucket, fs,
                   stopCleanup, tickerC, lastTick, listed, calls, closeCalls,
                   held>>

\* Fault-seeded variant: the select has no stop case
StopNever(ch) == FALSE

\* Whether the select can take "case <-s.stopCleanup".
StopReady(ch) == ch = "closed"

\* select: case <-s.stopCleanup: return (and the deferred ticker.Stop()).
SweepStop ==
    /\ sweepPc = "select"
    /\ StopReady(stopCleanup)
    /\ sweepPc' = "stopped"
    /\ ret' = NoRet
    /\ summary' = NoSummary
    /\ UNCHANGED <<veo, http, boot, handler, backend, now, bucket, fs,
                   stopCleanup, tickerC, lastTick, tickNow, listed,
                   deletedCount, errorCount, calls, closeCalls, held>>

\* The sweep of another backend instance on the same bucket removes an
\* object it found expired.
PeerRemove(key) ==
    /\ backend = "remote"
    /\ key \in DOMAIN bucket
    /\ Expired(now - bucket[key].lastModified, ObjectTTL)
    /\ bucket' = Drop(bucket, key)
    /\ ret' = NoRet
    /\ summary' = NoSummary
    /\ UNCHANGED <<veo, http, boot, handler, backend, now, fs, stopCleanup,
                   sweepPc, tickerC, lastTick, tickNow, listed, deletedCount,
                   errorCount, calls, closeCalls, held>>

\* the object keys callers pass to Delete: keys Store issued on the first
\* day, and a stranger
RemoteKeys == {RemoteKey(0, a[1], a[2], a[3]) : a \in StoreArgs} \cup {Nowhere}

Sweep == SweepTick \/ SweepEntry \/ SweepFinish \/ SweepStop

RemoteCalls ==
    \/ \E a \in StoreArgs, putFails \in BOOLEAN, presignFails \in BOOLEAN :
         S3Store(a[1], a[2], a[3], putFails, presignFails)
    \/ \E k \in RemoteKeys, fails \in BOOLEAN : S3Delete(k, fails)

\* ----------------------------------------------------- LocalStorage
\* Fault-seeded variant: the file is opened with O_APPEND
OverlayAppend(cur, w) == cur \o w

\* The file after bytes w were written at offset 0 of a file holding cur.
Overlay(cur, w) ==
    IF Len(cur) > Len(w) THEN w \o SubSeq(cur, Len(w) + 1, Len(cur)) ELSE w

\* Fault-seeded variant: Store drops the error of os.WriteFile
WriteFileErrIgnored(n, d) == ""

\* The error os.WriteFile returns when n of the bytes of d were written.
WriteFileErr(n, d) == IF n < Len(d) THEN "write" ELSE ""

\* Store, first half: hash, filename, path, and os.WriteFile opening the file
\* with O_WRONLY|O_CREATE|O_TRUNC.  fails: the open failed.
LocalStoreOpen(c, d, m, p, fails) ==
    LET filename == Filename(d, m, p)
        outputPath == Join(BaseDir, filename)
    IN  /\ backend = "local"
        /\ calls[c].pc = "idle"
        /\ IF fails
           THEN /\ ret' = StoreRet(filename, d, m, p, "write", "open",
                                FALSE, NoResult)
                /\ UNCHANGED <<fs, calls>>
           ELSE /\ fs' = Put(fs, outputPath, <<>>)
                /\ calls' = [calls EXCEPT ![c] =
                               [pc |-> "writing", path |-> outputPath,
                                data |-> d, mimeType |-> m, prefix |-> p,
                                name |-> filename, attached |-> TRUE]]
                /\ ret' = NoRet
        /\ summary' = NoSummary
        /\ UNCHANGED <<veo, http, boot, handler, backend, now, bucket,
                       stopCleanup, sweepPc, tickerC, lastTick, tickNow,
                       listed, deletedCount, errorCount, closeCalls, held>>

\* Store, second half: os.WriteFile writes n of the bytes (all of them unless
\* the write fails) and closes the file; Store returns the error or the
\* StorageResult.  A file removed since the open is written to no more.
LocalStoreWrite(c, n) ==
    LET call == calls[c]
        err == WriteFileErr(n, call.data)
    IN  /\ backend = "local"
        /\ call.pc = "writing"
        /\ n \in 0..Len(call.data)
        /\ fs' = IF call.attached
                 THEN Put(fs, call.path,
                          Overlay(fs[call.path], SubSeq(call.data, 1, n)))
                 ELSE fs
        /\ calls' = [calls EXCEPT ![c] = IdleCall]
        /\ ret' = IF err # ""
                  THEN StoreRet(call.name, call.data, call.mimeType,
                                call.prefix, err, "write", call.attached,
                                NoResult)
                  ELSE StoreRet(call.name, call.data, call.mimeType,
                                call.prefix, "", "nil", call.attached,
                                StorageResult(call.path, call.name,
                                              ContentHash(call.data),
                                              call.mimeType, Len(call.data),
                                              -1))
        /\ summary' = NoSummary
        /\ UNCHANGED <<veo, http, boot, handler, backend, now, bucket,
                       stopCleanup, sweepPc, tickerC, lastTick, tickNow,
                       listed, deletedCount, errorCount, closeCalls, held>>

\* Fault-seeded variant: Delete returns every error of os.Remove
LocalDeleteErrStrict(removeErr) == IF removeErr # "nil" THEN "delete" ELSE ""

\* The error Delete returns, given what os.Remove returned:
\* err != nil && !os.IsNotExist(err).
LocalDeleteErr(removeErr) ==
    IF removeErr # "nil" /\ removeErr # "ENOENT" THEN "delete" ELSE ""

\* Delete: os.Remove(filepath.Join(baseDir, objectKey)).  fails: os.Remove
\* failed for another reason than the file's absence.
LocalDelete(objectKey, fails) ==
    LET filePath == Join(BaseDir, objectKey)
        existed == filePath \in DOMAIN fs
        removeErr == IF fails THEN "EIO"
                     ELSE IF existed THEN "nil" ELSE "ENOENT"
    IN  /\ backend = "local"
        /\ IF removeErr = "nil"
           THEN /\ fs' = Drop(fs, filePath)
                /\ calls' = [c \in Callers |->
                               IF calls[c].path = filePath
                               THEN [calls[c] EXCEPT !.attached = FALSE]
                               ELSE calls[c]]
           ELSE UNCHANGED <<fs, calls>>
        /\ ret' = DeleteRet(objectKey, LocalDeleteErr(removeErr), removeErr,
                            existed)
        /\ summary' = NoSummary
        /\ UNCHANGED <<veo, http, boot, handler, backend, now, bucket,
                       stopCleanup, sweepPc, tickerC, lastTick, tickNow,
                       listed, deletedCount, errorCount, closeCalls, held>>

\* Close: return nil.
LocalClose ==
    /\ backend = "local"
    /\ closeCalls < MaxCloseCalls
    /\ closeCalls' = closeCalls + 1
    /\ ret' = CloseRet("")
    /\ summary' = NoSummary
    /\ UNCHANGED <<veo, http, boot, handler, backend, now, bucket, fs,
                   stopCleanup, sweepPc, tickerC, lastTick, tickNow, listed,
                   deletedCount, errorCount, calls, held>>

\* the object keys callers pass to Delete: keys Store issued, and a stranger
LocalKeys == {Filename(a[1], a[2], a[3]) : a \in StoreArgs} \cup {Nowhere}

LocalCalls ==
    \/ \E c \in Callers, a \in StoreArgs, fails \in BOOLEAN :
         LocalStoreOpen(c, a[1], a[2], a[3], fails)
    \/ \E c \in Callers : \E n \in 0..Len(calls[c].data) : LocalStoreWrite(c, n)
    \/ \E k \in LocalKeys, fails \in BOOLEAN : LocalDelete(k, fails)

\* --------------------------------------------------------- Retrieve
\* Fault-seeded variant: Retrieve looks for the key in the working directory
LocalRetrieveInCwd(objectKey, files, statFails) ==
    IF ~statFails /\ objectKey \notin DOMAIN files
    THEN Retrieved(<<>>, "nil", "notfound")
    ELSE IF statFails
    THEN Retrieved(<<>>, "nil", "stat")
    ELSE Retrieved(objectKey, "noop", "")

\* LocalStorage.Retrieve: os.Stat(filepath.Join(baseDir, objectKey)).
\* statFails: os.Stat failed for another reason than the file's absence.
LocalRetrieve(objectKey, files, statFails) ==
    LET filePath == Join(BaseDir, objectKey)
    IN  IF ~statFails /\ filePath \notin DOMAIN files
        THEN Retrieved(<<>>, "nil", "notfound")
        ELSE IF statFails
        THEN Retrieved(<<>>, "nil", "stat")
        ELSE Retrieved(filePath, "noop", "")

\* S3Storage.Retrieve: downloads the object to a transient local file and
\* returns its path and a cleanup that deletes the file.
S3Retrieve(objectKey, objects, fails) ==
    IF fails \/ objectKey \notin DOMAIN objects
    THEN Retrieved(<<>>, "nil", "download")
    ELSE Retrieved(TempPath, "removeTemp", "")

\* --------------------------------------------------------- IsRemote
\* func (s *LocalStorage) IsRemote() bool { return false }
LocalIsRemote == FALSE

\* func (s *S3Storage) IsRemote() bool { return true }
S3IsRemote == TRUE

\* Fault-seeded variant: a closed remote backend answers false
IsRemoteUntilClosed(b) == b = "remote" /\ stopCleanup = "open"

\* s.storage.IsRemote() on backend b
IsRemote(b) == IF b = "remote" THEN S3IsRemote ELSE LocalIsRemote

\* ------------------------------------------------- path resolution
Resolved(localPath, cleanup, err, called) ==
    [localPath |-> localPath, cleanup |-> cleanup, err |-> err,
     called |-> called]

\* Fault-seeded variant: an absolute path that is no file is tried as an object key
ResolveAbsoluteAsKey(inputPath, files, isRemote, got) ==
    IF IsAbsolute(inputPath) /\ inputPath \in DOMAIN files
    THEN Resolved(inputPath, "nil", "", FALSE)
    ELSE IF got.err # ""
    THEN IF ~isRemote /\ inputPath \in DOMAIN files
         THEN Resolved(inputPath, "nil", "", TRUE)
         ELSE Resolved(<<>>, "nil", "notfound", TRUE)
    ELSE Resolved(got.path, got.cleanup, "", TRUE)

\* Fault-seeded variant: the relative-path fallback does not ask IsRemote()
ResolveFallbackAlways(inputPath, files, isRemote, got) ==
    IF IsAbsolute(inputPath)
    THEN IF inputPath \in DOMAIN files
         THEN Resolved(inputPath, "nil", "", FALSE)
         ELSE Resolved(<<>>, "nil", "notfound", FALSE)
    ELSE IF got.err # ""
    THEN IF inputPath \in DOMAIN files
         THEN Resolved(inputPath, "nil", "", TRUE)
         ELSE Resolved(<<>>, "nil", "notfound", TRUE)
    ELSE Resolved(got.path, got.cleanup, "", TRUE)

\* Fault-seeded variant: the local branch looks for the relative file before Retrieve
ResolveRelativeFirst(inputPath, files, isRemote, got) ==
    IF IsAbsolute(inputPath)
    THEN IF inputPath \in DOMAIN files
         THEN Resolved(inputPath, "nil", "", FALSE)
         ELSE Resolved(<<>>, "nil", "notfound", FALSE)
    ELSE IF isRemote
    THEN IF got.err # ""
         THEN Resolved(<<>>, "nil", "retrieve", TRUE)
         ELSE Resolved(got.path, got.cleanup, "", TRUE)
    ELSE IF inputPath \in DOMAIN files
    THEN Resolved(inputPath, "nil", "", TRUE)
    ELSE IF got.err # ""
    THEN Resolved(<<>>, "nil", "notfound", TRUE)
    ELSE Resolved(got.path, got.cleanup, "", TRUE)

\* Server.resolveInputPath.  files: the filesystem os.Stat looks at;
\* isRemote: s.storage.IsRemote(); got: what s.storage.Retrieve(inputPath)
\* returns when it is called.
ResolveInputPath(inputPath, files, isRemote, got) ==
    IF IsAbsolute(inputPath)
    THEN IF inputPath \in DOMAIN files
         THEN Resolved(inputPath, "nil", "", FALSE)
         ELSE Resolved(<<>>, "nil", "notfound", FALSE)
    ELSE IF isRemote
    THEN IF got.err # ""
         THEN Resolved(<<>>, "nil", "retrieve", TRUE)
         ELSE Resolved(got.path, got.cleanup, "", TRUE)
    ELSE IF got.err # ""
         THEN IF inputPath \in DOMAIN files
              THEN Resolved(inputPath, "nil", "", TRUE)
              ELSE Resolved(<<>>, "nil", "notfound", TRUE)
         ELSE Resolved(got.path, got.cleanup, "", TRUE)

\* A handler resolves its input path; fails: the backend's I/O failed.  A
\* Retrieve of the remote backend that succeeds leaves the download behind.
Resolve(inputPath, fails) ==
    LET got == IF backend = "remote"
               THEN S3Retrieve(inputPath, bucket, fails)
               ELSE LocalRetrieve(inputPath, fs, fails)
        r == ResolveInputPath(inputPath, fs, IsRemote(backend), got)
        result == IF r.called THEN got ELSE NoRetrieve
    IN  /\ held = "none"
        /\ fs' = IF r.called /\ got.cleanup = "removeTemp"
                 THEN Put(fs, TempPath, bucket[inputPath].data)
                 ELSE fs
        /\ held' = IF r.err = "" THEN r.cleanup ELSE "none"
        /\ ret' = Ret("Resolve", inputPath, <<>>, r.err, "",
                      inputPath \in DOMAIN fs, r.localPath, r.cleanup,
                      r.called, result, NoResult)
        /\ summary' = NoSummary
        /\ UNCHANGED <<veo, http, boot, handler, backend, now, bucket,
                       stopCleanup, sweepPc, tickerC, lastTick, tickNow,
                       listed, deletedCount, errorCount, calls, closeCalls>>

\* The handler returns: "if cleanup != nil { defer cleanup() }".
HandlerExit ==
    /\ held # "none"
    /\ held' = "none"
    /\ fs' = IF held = "removeTemp" THEN Drop(fs, TempPath) ELSE fs
    /\ ret' = NoRet
    /\ summary' = NoSummary
    /\ UNCHANGED <<veo, http, boot, handler, backend, now, bucket, stopCleanup,
                   sweepPc, tickerC, lastTick, tickNow, listed, deletedCount,
                   errorCount, calls, closeCalls>>

\* the identifiers handlers are given
InputPaths ==
    {AbsHere, AbsGone, RelOnly, Nowhere, RelLocalTwin, RelRemoteTwin,
     Join(BaseDir, RelLocalTwin)}
        \cup {Filename(a[1], a[2], a[3]) : a \in StoreArgs}
        \cup {RemoteKey(0, a[1], a[2], a[3]) : a \in StoreArgs}

ResolveNext ==
    \/ \E inputPath \in InputPaths, fails \in BOOLEAN :
         Resolve(inputPath, fails)
    \/ HandlerExit

\* ------------------------------------------------- the image handlers
\* handleGeminiMultiImage takes 2 to 3 input images, the other two one.
MinImages == 2
MaxImages == 3

Tools == {"gemini_image_edit", "gemini_multi_image", "veo_image_to_video"}

\* the identifiers requests name as input images: the key of a stored
\* image, a file given by its absolute path, and a stranger
HandlerInputs ==
    {IF backend = "remote" THEN RelRemoteTwin ELSE RelLocalTwin, AbsHere,
     Nowhere}

RECURSIVE SeqsOfLen(_, _)
SeqsOfLen(S, n) ==
    IF n = 0 THEN {<<>>}
    ELSE {<<x>> \o q : x \in S, q \in SeqsOfLen(S, n - 1)}

\* the input_image_paths a request may carry and the handler accepts
ImagePaths(tool) ==
    IF tool = "gemini_multi_image"
    THEN UNION {SeqsOfLen(HandlerInputs, n) : n \in MinImages..MaxImages}
    ELSE SeqsOfLen(HandlerInputs, 1)

\* the transient file of the i-th download of a handler (every download gets
\* a file of its own)
TempFile(i) == TempPath \o <<Digit[i + 1]>>

\* A cleanup function: fn as in Retrieved, path the file it removes, id its
\* place among the cleanups the handler obtained.
Cleanup(fn, path, id) == [fn |-> fn, path |-> path, id |-> id]

\* "if cleanup != nil { defer cleanup() }", and in the multi-image handler
\* "if cleanup != nil { cleanups = append(cleanups, cleanup) }"
Deferred(cleanups, cleanup) ==
    IF cleanup.fn # "nil" THEN Append(cleanups, cleanup) ELSE cleanups

\* Fault-seeded variant: only the cleanup deferred last runs
RunDeferredLast(cleanups) ==
    IF cleanups = <<>> THEN <<>> ELSE <<cleanups[Len(cleanups)]>>

\* The cleanups the deferred calls run when the handler returns: "defer
\* cleanup()", and "for _, cleanup := range cleanups { if cleanup != nil {
\* cleanup() } }".
RunDeferred(cleanups) == SelectSeq(cleanups, LAMBDA f : f.fn # "nil")

\* The handler returns err: its deferred calls run.
Returned(h, err) ==
    LET ran == RunDeferred(h.cleanups)
    IN  [h EXCEPT !.pc = "returned", !.todo = <<>>, !.err = err,
                  !.runs = [i \in 1..Len(h.obtained) |->
                              h.runs[i] + Cardinality(
                                  {j \in 1..Len(ran) : ran[j].id = i})]]

\* The filesystem after the handler's deferred calls ran.
AfterDeferred(files, cleanups) ==
    LET ran == RunDeferred(cleanups)
        gone == {ran[j].path : j \in {i \in 1..Len(ran) :
                                         ran[i].fn = "removeTemp"}}
    IN  [x \in DOMAIN files \ gone |-> files[x]]

\* A request arrives and passes the handler's input validation.
HandlerStart(tool, paths) ==
    /\ handler.pc # "running"
    /\ handler' = [IdleHandler EXCEPT !.pc = "running", !.tool = tool,
                                      !.todo = paths]
    /\ ret' = NoRet
    /\ summary' = NoSummary
    /\ UNCHANGED <<veo, http, boot, backend, now, bucket, fs, stopCleanup,
                   sweepPc, tickerC, lastTick, tickNow, listed, deletedCount,
                   errorCount, calls, closeCalls, held>>

\* One input image: resolveInputPath, the cleanup deferred, os.ReadFile.
\* fails: the backend's I/O failed; readFails: os.ReadFile failed.  Either
\* error makes the handler return.
HandlerInput(fails, readFails) ==
    LET inputPath == Head(handler.todo)
        got == IF backend = "remote"
               THEN S3Retrieve(inputPath, bucket, fails)
               ELSE LocalRetrieve(inputPath, fs, fails)
        r == ResolveInputPath(inputPath, fs, IsRemote(backend), got)
        id == Len(handler.obtained) + 1
        temp == TempFile(id)
        cleanup == Cleanup(r.cleanup,
                           IF r.cleanup = "removeTemp" THEN temp ELSE <<>>,
                           id)
        files == IF r.called /\ got.cleanup = "removeTemp"
                 THEN Put(fs, temp, bucket[inputPath].data)
                 ELSE fs
        h == [handler EXCEPT
                !.cleanups = Deferred(@, cleanup),
                !.obtained = IF r.cleanup # "nil"
                             THEN Append(@, cleanup) ELSE @,
                !.runs = IF r.cleanup # "nil" THEN Append(@, 0) ELSE @,
                !.todo = Tail(@)]
    IN  /\ handler.pc = "running"
        /\ handler.todo # <<>>
        /\ IF r.err # ""
           THEN /\ handler' = Returned(handler, "resolve")
                /\ fs' = AfterDeferred(fs, handler.cleanups)
           ELSE IF readFails
           THEN /\ handler' = Returned(h, "read")
                /\ fs' = AfterDeferred(files, h.cleanups)
           ELSE /\ handler' = h
                /\ fs' = files
        /\ ret' = NoRet
        /\ summary' = NoSummary
        /\ UNCHANGED <<veo, http, boot, backend, now, bucket, stopCleanup,
                       sweepPc, tickerC, lastTick, tickNow, listed,
                       deletedCount, errorCount, calls, closeCalls, held>>

\* All inputs are read: the generation (whose outputs the handler stores by
\* Store calls) succeeds or fails, and the handler returns.
HandlerReturn(fails) ==
    /\ handler.pc = "running"
    /\ handler.todo = <<>>
    /\ handler' = Returned(handler, IF fails THEN "generate" ELSE "")
    /\ fs' = AfterDeferred(fs, handler.cleanups)
    /\ ret' = NoRet
    /\ summary' = NoSummary
    /\ UNCHANGED <<veo, http, boot, backend, now, bucket, stopCleanup, sweepPc,
                   tickerC, lastTick, tickNow, listed, deletedCount,
                   errorCount, calls, closeCalls, held>>

HandlerNext ==
    \/ \E tool \in Tools : \E paths \in ImagePaths(tool) :
         HandlerStart(tool, paths)
    \/ \E fails \in BOOLEAN, readFails \in BOOLEAN :
         HandlerInput(fails, readFails)
    \/ \E fails \in BOOLEAN : HandlerReturn(fails)

\* ---------------------------------------------------- specifications
\* The backends: the storage calls of any number of callers, the clock and
\* the sweep goroutine.
Next ==
    \/ Advance
    \/ RemoteCalls
    \/ S3Close
    \/ Sweep
    \/ LocalCalls
    \/ LocalClose

Spec == Init /\ [][Next]_vars

\* The scheduler runs a goroutine that can take a step: a tick in progress
\* goes on to its end, and a select that finds the stop channel ready over and
\* over takes that case in the end (select picks among ready cases at random).
FairSpec ==
    /\ Spec
    /\ WF_vars(SweepEntry)
    /\ WF_vars(SweepFinish)
    /\ SF_vars(SweepStop)

\* Path resolution by a handler, over a store that callers fill and empty.
ResolveSteps ==
    \/ RemoteCalls
    \/ LocalCalls
    \/ ResolveNext

SpecResolve == Init /\ [][ResolveSteps]_vars

\* The storage variables for backend b ("none": no backend yet) at time t,
\* over a bucket and a filesystem that hold objects and files.
StorageAt(b, t, objects, files) ==
    /\ backend = b
    /\ now = t
    /\ bucket = objects
    /\ fs = files
    /\ stopCleanup = "open"
    /\ sweepPc = IF b = "remote" THEN "select" ELSE "none"
    /\ tickerC = FALSE
    /\ lastTick = t
    /\ tickNow = 0
    /\ listed = <<>>
    /\ deletedCount = 0
    /\ errorCount = 0
    /\ summary = NoSummary
    /\ calls = [c \in Callers |-> IdleCall]
    /\ closeCalls = 0
    /\ held = "none"
    /\ ret = NoRet
    /\ handler = IdleHandler

\* Backend b as NewStorage returned it at time t, over a bucket and a
\* filesystem that hold objects and files.
Started(b, t, objects, files) ==
    /\ StorageAt(b, t, objects, files)
    /\ boot = Built(b)
    /\ http = NoHTTP
    /\ veo = NoVeo

NoObjects == [k \in {} |-> 0]

\* The state after Store(<<3>>, "image/png", <<"g">>) at time 0.
InitStocked ==
    \/ Started("remote", 0,
               [k \in {RelRemoteTwin} |->
                  [data |-> <<3>>, lastModified |-> 0,
                   contentType |-> "image/png", createdAt |-> 0,
                   expiresAt |-> ObjectTTL]],
               InitialFiles)
    \/ Started("local", 0, NoObjects,
               Put(InitialFiles, Join(BaseDir, RelLocalTwin), <<3>>))

\* The image handlers, over a store that holds an image; callers store and
\* delete meanwhile.  (Retrieve of the local backend only asks whether the
\* file exists, so a local Store in progress shows it nothing new.)
HandlerSteps ==
    \/ RemoteCalls
    \/ \E k \in LocalKeys, fails \in BOOLEAN : LocalDelete(k, fails)
    \/ HandlerNext

SpecHandler == InitStocked /\ [][HandlerSteps]_vars

\* ------------------------------------------ the first Store of a backend
\* the MIME types of the extension table, and two it does not have
MimeTypes ==
    {"image/png", "image/jpeg", "image/webp", "image/gif", "video/mp4",
     "video/webm", "application/json", "text/plain", "image/bmp"}
Prefixes == {<<"g">>, <<"v", "e", "o">>}
AnyStoreArgs == {<<d, m, p>> : d \in Payloads, m \in MimeTypes, p \in Prefixes}

\* the last time unit of the second UTC day
LastTime == 2 * DayLen - 1

\* A backend constructed at any time of two UTC days.
InitAnyTime ==
    \/ \E t \in 0..LastTime : Started("remote", t, NoObjects, InitialFiles)
    \/ Started("local", 0, NoObjects, InitialFiles)

\* Nothing was stored yet and no Store is in progress.
Fresh ==
    /\ bucket = NoObjects
    /\ fs = InitialFiles
    /\ \A c \in Callers : calls[c].pc = "idle"

\* The first Store call, with any arguments.
FirstStore ==
    \/ \E a \in AnyStoreArgs, putFails \in BOOLEAN, presignFails \in BOOLEAN :
         Fresh /\ S3Store(a[1], a[2], a[3], putFails, presignFails)
    \/ \E c \in Callers, a \in AnyStoreArgs, fails \in BOOLEAN :
         Fresh /\ LocalStoreOpen(c, a[1], a[2], a[3], fails)
    \/ \E c \in Callers : \E n \in 0..Len(calls[c].data) :
         LocalStoreWrite(c, n)

SpecFirst == InitAnyTime /\ [][FirstStore]_vars

\* -------------------------------------------- two instances, one bucket
\* A remote backend whose callers store and close it, its sweep, and the
\* sweep of a second instance that shares the bucket.
PeerSteps ==
    \/ Advance
    \/ \E a \in StoreArgs, putFails \in BOOLEAN, presignFails \in BOOLEAN :
         S3Store(a[1], a[2], a[3], putFails, presignFails)
    \/ S3Close
    \/ Sweep
    \/ \E key \in DOMAIN bucket : PeerRemove(key)

SpecPeers ==
    Started("remote", 0, NoObjects, InitialFiles) /\ [][PeerSteps]_vars

\* ------------------------------------------------ around UTC midnight
\* A remote backend constructed in the last hours of a UTC day, followed into
\* the first hours of the next.  (The sweep, which only removes objects, is
\* left aside.)
InitEvening ==
    \E t \in (DayLen - 2)..(DayLen - 1) :
       Started("remote", t, NoObjects, InitialFiles)

NightSteps ==
    \/ ClockStep(DayLen + 1)
    \/ RemoteCalls

SpecNight == InitEvening /\ [][NightSteps]_vars

\* ----------------------------------------------------------- NewStorage
\* Fault-seeded variant: a failed constructor hands out the backend anyway
FailedKeepsStorage(inst, err) ==
    [inst EXCEPT !.pc = "failed", !.err = err, !.storage = "remote"]

\* return nil, fmt.Errorf(...)
Failed(inst, err) ==
    [inst EXCEPT !.pc = "failed", !.err = err, !.storage = "nil"]

\* What NewStorage returned to instance i in the step just taken; cause:
\* what the library call that decided it had returned.
NewStorageRet(i, err, cause) ==
    Ret("NewStorage", <<i>>, <<>>, err, cause, FALSE, <<>>, "nil", FALSE,
        NoRetrieve, NoResult)

\* NewS3Storage up to the answer of BucketExists: parseEndpoint, minio.New
\* (newFails: it returned an error) and client.BucketExists (checkFails:
\* the request failed).
NewS3Check(i, newFails, checkFails) ==
    LET err == IF newFails THEN "client" ELSE IF checkFails THEN "check" ELSE ""
    IN  /\ boot.s3Enabled
        /\ boot.inst[i].pc = "new"
        /\ boot' = [boot EXCEPT !.inst[i] =
                       LET inst == Dialled(@, boot.endpoint, boot.useSSL)
                       IN  IF err # "" THEN Failed(inst, err)
                           ELSE [inst EXCEPT !.pc = "checked",
                                             !.exists = boot.bucketExists]]
        /\ ret' = IF err # ""
                  THEN NewStorageRet(i, err, IF newFails THEN "minio.New"
                                             ELSE "network")
                  ELSE NoRet
        /\ summary' = NoSummary
        /\ UNCHANGED <<veo, http, handler, backend, now, bucket, fs,
                       stopCleanup, sweepPc, tickerC, lastTick, tickNow,
                       listed, deletedCount, errorCount, calls, closeCalls,
                       held>>

\* What client.MakeBucket returns.  fails: the request failed; exists: the
\* bucket is there when the request arrives; conflict: the server answers
\* the creation of a bucket that exists with BucketAlreadyOwnedByYou (MinIO,
\* and S3 outside us-east-1) rather than with success.
MakeBucketErr(exists, fails, conflict) ==
    IF fails THEN "network"
    ELSE IF exists /\ conflict THEN "BucketAlreadyOwnedByYou"
    ELSE "nil"

\* NewS3Storage from "if !exists" on: MakeBucket when BucketExists had
\* answered false, then the S3Storage value, the sweep goroutine, return.
NewS3Make(i, fails, conflict) ==
    LET err == IF boot.inst[i].exists THEN "nil"
               ELSE MakeBucketErr(boot.bucketExists, fails, conflict)
    IN  /\ boot.s3Enabled
        /\ boot.inst[i].pc = "checked"
        /\ IF err # "nil"
           THEN /\ boot' = [boot EXCEPT !.inst[i] = Failed(@, "create")]
                /\ ret' = NewStorageRet(i, "create", err)
                /\ UNCHANGED <<backend, sweepPc, lastTick>>
           ELSE /\ boot' = [boot EXCEPT
                              !.bucketExists = TRUE,
                              !.inst[i] = GoSweep(Constructed(@, "remote"))]
                /\ ret' = NewStorageRet(i, "", "nil")
                /\ IF i = Self
                   THEN /\ backend' = "remote"
                        /\ sweepPc' = "select"
                        /\ lastTick' = now
                   ELSE UNCHANGED <<backend, sweepPc, lastTick>>
        /\ summary' = NoSummary
        /\ UNCHANGED <<veo, http, handler, now, bucket, fs, stopCleanup,
                       tickerC, tickNow, listed, deletedCount, errorCount,
                       calls, closeCalls, held>>

\* NewStorage, local branch: NewLocalStorage.  fails: os.MkdirAll failed.
NewLocal(i, fails) ==
    /\ ~boot.s3Enabled
    /\ boot.inst[i].pc = "new"
    /\ IF fails
       THEN /\ boot' = [boot EXCEPT !.inst[i] = Failed(@, "mkdir")]
            /\ ret' = NewStorageRet(i, "mkdir", "MkdirAll")
            /\ UNCHANGED backend
       ELSE /\ boot' = [boot EXCEPT !.inst[i] = Constructed(@, "local")]
            /\ ret' = NewStorageRet(i, "", "nil")
            /\ backend' = IF i = Self THEN "local" ELSE backend
    /\ summary' = NoSummary
    /\ UNCHANGED <<veo, http, handler, now, bucket, fs, stopCleanup, sweepPc,
                   tickerC, lastTick, tickNow, listed, deletedCount,
                   errorCount, calls, closeCalls, held>>

NewStorage ==
    \/ \E i \in Instances, newFails \in BOOLEAN, checkFails \in BOOLEAN :
         NewS3Check(i, newFails, checkFails)
    \/ \E i \in Instances, fails \in BOOLEAN, conflict \in BOOLEAN :
         NewS3Make(i, fails, conflict)
    \/ \E i \in Instances, fails \in BOOLEAN : NewLocal(i, fails)

\* No instance has called NewStorage; the configuration selects a backend
\* and the bucket is there or not.
InitUnbuilt ==
    /\ StorageAt("none", 0, NoObjects, InitialFiles)
    /\ http = NoHTTP
    /\ veo = NoVeo
    /\ \E enabled \in BOOLEAN, exists \in BOOLEAN :
         boot = [s3Enabled |-> enabled, bucketExists |-> exists,
                 endpoint |-> DefaultEndpoint, useSSL |-> DefaultUseSSL,
                 transport |-> DefaultTransport(enabled),
                 accessKeyID |-> DefaultKey(enabled),
                 secretAccessKey |-> DefaultKey(enabled),
                 inst |-> [i \in Instances |-> NewInstance]]

\* Construction by the two instances, and then the life of this instance's
\* backend: callers that store and delete one image, its sweep, its Close.
ConstructSteps ==
    \/ NewStorage
    \/ Advance
    \/ \E putFails \in BOOLEAN :
         S3Store(<<3>>, "image/png", <<"g">>, putFails, FALSE)
    \/ \E fails \in BOOLEAN : S3Delete(RelRemoteTwin, fails)
    \/ S3Close
    \/ Sweep
    \/ \E k \in LocalKeys, fails \in BOOLEAN : LocalDelete(k, fails)
    \/ LocalClose

SpecConstruct == InitUnbuilt /\ [][ConstructSteps]_vars

\* ------------------------------------------- the configured endpoint
EndpointSchemes ==
    {<<>>, <<"h", "t", "t", "p", ":", "/", "/">>,
     <<"h", "t", "t", "p", "s", ":", "/", "/">>,
     <<"H", "T", "T", "P", "S", ":", "/", "/">>,
     <<"f", "t", "p", ":", "/", "/">>}

\* host names and addresses, with a port or without
EndpointHosts ==
    {<<"m">>, <<"m", ":", "9">>, <<"1", ".", "3", ":", "9">>,
     <<"s", "3", ".", "a">>, <<"s", "3", ".", "a", ":", "9">>}

EndpointPaths == {<<>>, <<"/">>, <<"/", "m">>}

\* the values S3_ENDPOINT may have
Endpoints ==
    {scheme \o host \o path :
        scheme \in EndpointSchemes, host \in EndpointHosts,
        path \in EndpointPaths}

\* S3 is configured with some endpoint and some S3_USE_SSL.
InitEndpoint ==
    /\ StorageAt("none", 0, NoObjects, InitialFiles)
    /\ http = NoHTTP
    /\ veo = NoVeo
    /\ \E endpoint \in Endpoints, useSSL \in BOOLEAN, exists \in BOOLEAN :
         boot = [s3Enabled |-> TRUE, bucketExists |-> exists,
                 endpoint |-> endpoint, useSSL |-> useSSL,
                 transport |-> DefaultTransport(TRUE),
                 accessKeyID |-> DefaultKey(TRUE),
                 secretAccessKey |-> DefaultKey(TRUE),
                 inst |-> [i \in Instances |-> NewInstance]]

EndpointSteps ==
    \E i \in Instances, newFails \in BOOLEAN, checkFails \in BOOLEAN :
       NewS3Check(i, newFails, checkFails)

SpecEndpoint == InitEndpoint /\ [][EndpointSteps]_vars

\* ------------------------------------------- configuration and flag
\* the values of TRANSPORT and of the -transport flag ("": not given)
Transports == {"", "stdio", "http", "sse"}

\* main up to storage.NewStorage(config): LoadConfig from the environment,
\* then the -transport flag over config.Transport.
InitConfig ==
    /\ StorageAt("none", 0, NoObjects, InitialFiles)
    /\ http = NoHTTP
    /\ veo = NoVeo
    /\ \E env \in Transports, flag \in Transports,
          endpoint \in {<<>>, DefaultEndpoint},
          accessKeyID \in {<<>>, <<"k">>},
          secretAccessKey \in {<<>>, <<"k">>}, exists \in BOOLEAN :
         boot = [s3Enabled |-> S3Enabled(endpoint, accessKeyID,
                                         secretAccessKey, EnvTransport(env)),
                 bucketExists |-> exists,
                 endpoint |-> endpoint, useSSL |-> DefaultUseSSL,
                 transport |-> Override(EnvTransport(env), flag),
                 accessKeyID |-> accessKeyID,
                 secretAccessKey |-> secretAccessKey,
                 inst |-> [i \in Instances |-> NewInstance]]

SpecConfig == InitConfig /\ [][NewStorage]_vars

\* ------------------------------------------------------ AuthMiddleware
\* the white space of strings.TrimSpace that headers of the model contain
Whitespace == {" ", "\t"}

BearerPrefix == <<"B", "e", "a", "r", "e", "r", " ">>

\* strings.TrimPrefix
TrimPrefix(s, prefix) ==
    IF HasPrefix(s, prefix) THEN SubSeq(s, Len(prefix) + 1, Len(s)) ELSE s

\* strings.TrimSpace: s without its leading and trailing white space
RECURSIVE TrimSpace(_)
TrimSpace(s) ==
    IF s = <<>> THEN s
    ELSE IF Head(s) \in Whitespace THEN TrimSpace(Tail(s))
    ELSE IF s[Len(s)] \in Whitespace THEN TrimSpace(SubSeq(s, 1, Len(s) - 1))
    ELSE s

\* http.StatusUnauthorized
StatusUnauthorized == 401

\* next.ServeHTTP(w, r): the middleware writes no status of its own
Pass == [status |-> 0, served |-> TRUE]

\* http.Error(w, ..., http.StatusUnauthorized); return
Deny == [status |-> StatusUnauthorized, served |-> FALSE]

\* Fault-seeded variant: any Bearer header is let through
AuthMiddlewareAnyBearer(tokenSet, authHeader) ==
    IF tokenSet = {} THEN Pass
    ELSE IF authHeader = <<>> THEN Deny
    ELSE IF ~HasPrefix(authHeader, BearerPrefix) THEN Deny
    ELSE Pass

\* The handler AuthMiddleware(validTokens, next) returns, for a request
\* whose r.Header.Get("Authorization") is authHeader.
AuthMiddleware(tokenSet, authHeader) ==
    IF tokenSet = {} THEN Pass
    ELSE IF authHeader = <<>> THEN Deny
    ELSE IF ~HasPrefix(authHeader, BearerPrefix) THEN Deny
    ELSE LET token == TrimSpace(TrimPrefix(authHeader, BearerPrefix))
         IN  IF token \notin tokenSet THEN Deny ELSE Pass

\* config.AuthEnabled = len(config.ServiceTokens) > 0
AuthEnabled(serviceTokens) == serviceTokens # {}

\* The server handles a request: runHTTPServer wrapped the handler in the
\* middleware if authentication is enabled and tokens are configured.
ServeHTTP(authHeader) ==
    LET r == IF AuthEnabled(http.tokens) /\ http.tokens # {}
             THEN AuthMiddleware(http.tokens, authHeader)
             ELSE Pass
    IN  /\ http' = ServedBy(http.tokens, authHeader, r.status, r.served)
        /\ ret' = NoRet
        /\ summary' = NoSummary
        /\ UNCHANGED <<veo, boot, handler, backend, now, bucket, fs,
                       stopCleanup, sweepPc, tickerC, lastTick, tickNow,
                       listed, deletedCount, errorCount, calls, closeCalls,
                       held>>

\* SERVICE_TOKENS as parseServiceTokens leaves them: trimmed, none empty
TokenConfigs ==
    {{}, {<<"t">>}, {<<"t">>, <<"u", "t">>}, {<<"t", " ", "u">>}}

\* the credentials that follow the scheme of a header
MaxCredentials == 3
Credentials ==
    UNION {SeqsOfLen({"t", "u", " ", "\t"}, n) : n \in 0..MaxCredentials}

Schemes ==
    {BearerPrefix, <<"b", "e", "a", "r", "e", "r", " ">>,
     <<"B", "a", "s", "i", "c", " ">>, <<"B", "e", "a", "r", "e", "r">>}

\* The Authorization values a request can carry: net/http hands a header
\* value over without its leading and trailing white space, and <<>> for a
\* header that is missing.
AuthHeaders ==
    {h \in {scheme \o c : scheme \in Schemes, c \in Credentials} :
        TrimSpace(h) = h} \cup {<<>>}

\* The HTTP transport is up, with some SERVICE_TOKENS, over a backend.
InitHTTP ==
    \E b \in {"local", "remote"}, tokens \in TokenConfigs :
       /\ StorageAt(b, 0, NoObjects, InitialFiles)
       /\ boot = Built(b)
       /\ http = ServedBy(tokens, <<>>, 0, FALSE)
       /\ veo = NoVeo

HTTPSteps == \E authHeader \in AuthHeaders : ServeHTTP(authHeader)

SpecHTTP == InitHTTP /\ [][HTTPSteps]_vars

\* ------------------------------------------------------------ claims
SweepEntryStep == sweepPc = "tick" /\ listed # <<>> /\ listed' = Tail(listed)

\* C1: on the remote backend every Close() call, the second one too, returns
\* success: it neither panics nor returns an error.
C1_CloseIdempotent == ret.op = "Close" => ret.err = ""

\* C2: once Close() was called on the remote backend the sweep goroutine
\* reaches "stopped" (a tick in progress ends, the scheduler is fair); and
\* stopped is terminal: from then on the goroutine lists nothing, and the
\* bucket changes only by a caller's Store or Delete.
C2_SweepStops ==
    /\ (backend = "remote" /\ stopCleanup = "closed") ~> (sweepPc = "stopped")
    /\ [][sweepPc = "stopped" =>
            /\ sweepPc' = "stopped"
            /\ listed' = listed
            /\ tickNow' = tickNow
            /\ (bucket' # bucket => ret'.op \in {"Store", "Delete"})]_vars

\* the goroutine stopped although a tick was waiting in ticker.C and the
\* bucket holds an object
C2_Witness ==
    /\ sweepPc = "stopped"
    /\ tickerC
    /\ DOMAIN bucket # {}

\* C3: an object leaves the bucket only by Delete(objectKey) of a caller, or
\* by a step of the sweep taken when the object's age at that moment
\* (now - lastModified of the object in the bucket) exceeds the object TTL.
C3_SweepSparesFresh ==
    [][\A k \in DOMAIN bucket :
          k \notin DOMAIN bucket' =>
             \/ ret'.op = "Delete" /\ ret'.key = k
             \/ SweepEntryStep /\ now - bucket[k].lastModified > ObjectTTL]_vars

\* C4: a tick handles every entry of its listing; an entry whose age (tick
\* time - listed lastModified) is greater than the object TTL is removed,
\* and counted, when RemoveObject succeeds; for an entry whose age is at most
\* the object TTL the tick removes nothing.
C4_TickRemovesExpired ==
    [][/\ (SweepEntryStep /\ ~Head(listed).err) =>
            LET object == Head(listed)
                age == tickNow - object.lastModified
            IN  /\ (age > ObjectTTL /\ errorCount' = errorCount) =>
                      /\ object.key \notin DOMAIN bucket'
                      /\ deletedCount' = deletedCount + 1
                /\ (age > ObjectTTL /\ errorCount' # errorCount) =>
                      bucket' = bucket
                /\ age <= ObjectTTL =>
                      /\ bucket' = bucket
                      /\ deletedCount' = deletedCount
                      /\ errorCount' = errorCount
       /\ (sweepPc = "tick" /\ sweepPc' # "tick") => listed = <<>>]_vars

\* a tick has handled its whole listing: it removed one object, and an object
\* whose age is exactly the object TTL is still there
C4_Witness ==
    /\ sweepPc = "tick"
    /\ listed = <<>>
    /\ deletedCount = 1
    /\ \E k \in DOMAIN bucket : tickNow - bucket[k].lastModified = ObjectTTL

\* C5: on the local backend Delete of a key whose file is absent returns
\* success (os.Remove reporting nothing but the absence).
C5_LocalDeleteIdempotent ==
    (backend = "local" /\ ret.op = "Delete" /\ ~ret.existed
        /\ ret.cause = "ENOENT") => ret.err = ""

C5_Witness ==
    /\ backend = "local"
    /\ ret.op = "Delete"
    /\ ~ret.existed
    /\ ret.cause = "ENOENT"
    /\ ret.err = ""

\* C6: on the remote backend Delete of a key that is not in the bucket
\* returns success (the request itself not failing).
C6_RemoteDeleteIdempotent ==
    (backend = "remote" /\ ret.op = "Delete" /\ ~ret.existed
        /\ ret.cause = "nil") => ret.err = ""

C6_Witness ==
    /\ backend = "remote"
    /\ ret.op = "Delete"
    /\ ~ret.existed
    /\ ret.cause = "nil"
    /\ ret.err = ""
    /\ ret.key # Nowhere

C8_AbsolutePath ==
    (ret.op = "Resolve" /\ IsAbsolute(ret.key)) =>
        /\ ~ret.called
        /\ IF ret.existed
           THEN ret.err = "" /\ ret.path = ret.key
                /\ ret.cleanup \in {"nil", "noop"}
           ELSE ret.err = "notfound" /\ ret.path = <<>>

C8_Witness ==
    /\ backend = "remote"
    /\ ret.op = "Resolve"
    /\ ret.key = AbsGone
    /\ ret.err = "notfound"

C10_LocalRetrieveFirst ==
    (backend = "local" /\ ret.op = "Resolve" /\ ~IsAbsolute(ret.key)) =>
        /\ ret.called
        /\ ret.got.err = "" =>
              /\ ret.err = ""
              /\ ret.path = Join(BaseDir, ret.key)
              /\ ret.cleanup = "noop"
        /\ (ret.got.err # "" /\ ret.existed) =>
              ret.err = "" /\ ret.path = ret.key
        /\ ret.err # "" <=> (ret.got.err # "" /\ ~ret.existed)

\* the key is stored under the base directory and also names a relative file
C10_Witness ==
    /\ backend = "local"
    /\ ret.op = "Resolve"
    /\ ret.key = RelLocalTwin
    /\ ret.existed
    /\ ret.got.err = ""
    /\ ret.path = Join(BaseDir, RelLocalTwin)

\* C11: every cleanup a handler obtained from resolveInputPath has run exactly
\* once when the handler has returned, with an error or without, so that no
\* download of it is left; none has run while the handler is still at work.
\* In the multi-image handler this covers the inputs resolved before a later
\* one failed to resolve or to read.
C11_CleanupOnce ==
    /\ handler.pc = "returned" =>
          \A i \in 1..Len(handler.obtained) :
             /\ handler.runs[i] = 1
             /\ handler.obtained[i].fn = "removeTemp" =>
                   handler.obtained[i].path \notin DOMAIN fs
    /\ handler.pc = "running" =>
          \A i \in 1..Len(handler.obtained) :
             /\ handler.runs[i] = 0
             /\ handler.obtained[i].fn = "removeTemp" =>
                   handler.obtained[i].path \in DOMAIN fs

\* the multi-image handler failed on its third input after two downloads
C11_Witness ==
    /\ handler.pc = "returned"
    /\ handler.tool = "gemini_multi_image"
    /\ handler.err \in {"resolve", "read"}
    /\ Len(handler.obtained) >= 2
    /\ \A i \in 1..Len(handler.obtained) :
          handler.obtained[i].fn = "removeTemp"

\* C12: a successful Store, on either backend, with any payload, MIME type,
\* prefix and call time, returns contentHash = the 64 hex characters of the
\* digest of the payload (so the same for the same payload, whatever the
\* backend, the prefix or the time), size = the payload's length and
\* mimeType = the MIME type passed.
C12_ResultDescribesPayload ==
    (ret.op = "Store" /\ ret.err = "") =>
        /\ ret.res.contentHash = Digest(ret.data)
        /\ Len(ret.res.contentHash) = HashHexLen
        /\ ret.res.size = Len(ret.data)
        /\ ret.res.mimeType = ret.mimeType

\* the remote backend stored the two-byte payload on the second day, under
\* the longer prefix and a MIME type without extension
C12_Witness ==
    /\ backend = "remote"
    /\ now >= DayLen
    /\ ret.op = "Store"
    /\ ret.err = ""
    /\ ret.data = <<1, 2>>
    /\ ret.prefix = <<"v", "e", "o">>
    /\ ret.mimeType = "text/plain"

\* the files under the base directory
BaseDirFiles ==
    {f \in DOMAIN fs : /\ Len(f) > Len(BaseDir) + 1
                       /\ SubSeq(f, 1, Len(BaseDir) + 1) = BaseDir \o <<"/">>}

\* C13: on the local backend, when a Store returns its result (no Delete
\* having removed the file meanwhile), exactly one file under the base
\* directory holds the payload, the one named by the objectKey, however many
\* identical calls ran before or run at the same time; and two calls with the
\* same data, MIME type and prefix that return one after the other return the
\* same objectKey.
C13_LocalStoreIdempotent ==
    /\ [](backend = "local" /\ ret.op = "Store" /\ ret.err = "" /\ ret.existed
            => {f \in BaseDirFiles : fs[f] = ret.data}
                  = {Join(BaseDir, ret.res.objectKey)})
    /\ [][(/\ backend = "local"
           /\ ret.op = "Store" /\ ret.err = ""
           /\ ret'.op = "Store" /\ ret'.err = ""
           /\ ret'.data = ret.data
           /\ ret'.mimeType = ret.mimeType
           /\ ret'.prefix = ret.prefix)
             => ret'.res.objectKey = ret.res.objectKey]_vars

\* a Store returned while an identical call, which had opened the file
\* before, is still to write
C13_Witness ==
    /\ backend = "local"
    /\ ret.op = "Store"
    /\ ret.err = ""
    /\ ret.existed
    /\ \E c \in Callers :
          /\ calls[c].pc = "writing"
          /\ calls[c].attached
          /\ calls[c].name = ret.res.objectKey
          /\ calls[c].data = ret.data

\* C14: the key of a remote Store is the UTC date of the call as
\* YYYY/MM/DD, "/", the prefix, "_", the first 16 hex characters of the
\* content hash and the extension; and a Store gives the key of an object of
\* the same content and MIME type already in the bucket exactly when that
\* object was stored on the same UTC day.
C14_RemoteKeyDate ==
    /\ [](backend = "remote" /\ ret.op = "Store" =>
            LET date == DatePath(now)
            IN  /\ Len(date) = 10 /\ date[5] = "/" /\ date[8] = "/"
                /\ ret.key = date \o <<"/">> \o ret.prefix \o <<"_">>
                                \o SubSeq(Digest(ret.data), 1, HashKeyLen)
                                \o ExtensionFromMIME(ret.mimeType))
    /\ [][(backend = "remote" /\ ret'.op = "Store" /\ ret'.existed) =>
            \A k \in DOMAIN bucket :
               (/\ bucket[k].data = ret'.data
                /\ bucket[k].contentType = ret'.mimeType)
                  => (k = ret'.key <=>
                        bucket[k].createdAt \div DayLen = now \div DayLen)]_vars

\* after midnight a payload was stored that the bucket also holds under
\* yesterday's key
C14_Witness ==
    /\ backend = "remote"
    /\ now \div DayLen = 1
    /\ ret.op = "Store"
    /\ ret.err = ""
    /\ \E k \in DOMAIN bucket :
          /\ k # ret.key
          /\ bucket[k].data = ret.data
          /\ bucket[k].createdAt \div DayLen = 0

\* C15: a successful local Store(d, m, p) returns objectKey = p, "_", the
\* first 16 hex characters of the digest of d, and the extension of m;
\* location = the base directory, "/", that name; and the file at location
\* holds exactly d.
C15_LocalKeyAndFile ==
    (backend = "local" /\ ret.op = "Store" /\ ret.err = "") =>
        LET name == ret.prefix \o <<"_">>
                       \o [i \in 1..16 |-> Digest(ret.data)[i]]
                       \o ExtensionFromMIME(ret.mimeType)
        IN  /\ ret.res.objectKey = name
            /\ ret.res.location = BaseDir \o <<"/">> \o name
            /\ ret.res.location \in DOMAIN fs
            /\ fs[ret.res.location] = ret.data

\* the two-byte payload stored as image/png under the prefix "veo"
C15_Witness ==
    /\ backend = "local"
    /\ ret.op = "Store"
    /\ ret.err = ""
    /\ ret.data = <<1, 2>>
    /\ ret.mimeType = "image/png"
    /\ ret.prefix = <<"v", "e", "o">>
    /\ Len(ret.res.objectKey) = 3 + 1 + 16 + 4

\* what follows the hash in the object key a Store computed
KeyExtension ==
    LET date == IF backend = "remote" THEN Len(DatePath(now)) + 1 ELSE 0
        stem == date + Len(ret.prefix) + 1 + HashKeyLen
    IN  SubSeq(ret.key, stem + 1, Len(ret.key))

\* C16: the object key of a Store ends, after the hash, in .png for
\* image/png, .jpg for image/jpeg, .webp for image/webp, .gif for image/gif,
\* .mp4 for video/mp4, .webm for video/webm, .json for application/json, and
\* in nothing for any other MIME type.
C16_ExtensionTable ==
    ret.op = "Store" =>
        KeyExtension =
            CASE ret.mimeType = "image/png" -> <<".", "p", "n", "g">>
              [] ret.mimeType = "image/jpeg" -> <<".", "j", "p", "g">>
              [] ret.mimeType = "image/webp" -> <<".", "w", "e", "b", "p">>
              [] ret.mimeType = "image/gif" -> <<".", "g", "i", "f">>
              [] ret.mimeType = "video/mp4" -> <<".", "m", "p", "4">>
              [] ret.mimeType = "video/webm" -> <<".", "w", "e", "b", "m">>
              [] ret.mimeType = "application/json" ->
                    <<".", "j", "s", "o", "n">>
              [] OTHER -> <<>>

\* a MIME type the table does not have: the key ends with the hash
C16_Witness ==
    /\ ret.op = "Store"
    /\ ret.err = ""
    /\ ret.mimeType = "image/bmp"
    /\ KeyExtension = <<>>
    /\ ret.key[Len(ret.key)] \in {Hex[i] : i \in 1..Len(Hex)}

\* C17: a StorageResult of the local backend has no expiresAt; one of the
\* remote backend has expiresAt = the time of the Store call + the presign
\* TTL, whatever the object TTL.
C17_ExpiresAt ==
    (ret.op = "Store" /\ ret.err = "") =>
        IF backend = "local"
        THEN ret.res.expiresAt = -1
        ELSE /\ ret.res.expiresAt = now + PresignTTL
             /\ PresignTTL # ObjectTTL

\* a remote Store at a time after 0
C17_Witness ==
    /\ backend = "remote"
    /\ now > 0
    /\ ret.op = "Store"
    /\ ret.err = ""
    /\ ret.res.expiresAt = now + PresignTTL

\* C18: on the local backend (os.Stat and os.Remove failing for no other
\* reason than absence) Retrieve(objectKey) succeeds exactly when the file of
\* the key is under the base directory, with that file's path and a no-op
\* cleanup, and fails as not found otherwise; right after a successful Store
\* the path Retrieve returns holds the stored payload, and Delete of the key
\* succeeds and removes the file; right after a successful Delete, Retrieve
\* fails as not found; and the file comes back only by a Store of that key.
C18_StoreRetrieveDelete ==
    /\ [](backend = "local" /\ ret.op = "Resolve" /\ ret.called
            /\ ret.got.err # "stat" =>
               IF Join(BaseDir, ret.key) \in DOMAIN fs
               THEN /\ ret.got.err = ""
                    /\ ret.got.path = Join(BaseDir, ret.key)
                    /\ ret.got.cleanup = "noop"
               ELSE ret.got.err = "notfound")
    /\ [][(backend = "local" /\ ret.op = "Store" /\ ret.err = ""
             /\ ret.existed) =>
            /\ (ret'.op = "Resolve" /\ ret'.key = ret.res.objectKey
                  /\ ret'.got.err # "stat") =>
                     /\ ret'.called
                     /\ ret'.got.err = ""
                     /\ fs'[ret'.got.path] = ret.data
            /\ (ret'.op = "Delete" /\ ret'.key = ret.res.objectKey
                  /\ ret'.cause # "EIO") =>
                     /\ ret'.err = ""
                     /\ Join(BaseDir, ret'.key) \notin DOMAIN fs']_vars
    /\ [][(backend = "local" /\ ret.op = "Delete" /\ ret.err = ""
             /\ ret.cause # "EIO"
             /\ ret'.op = "Resolve" /\ ret'.key = ret.key
             /\ ret'.got.err # "stat") =>
                ret'.called /\ ret'.got.err = "notfound"]_vars
    /\ [][\A k \in LocalKeys :
            (Join(BaseDir, k) \notin DOMAIN fs
               /\ Join(BaseDir, k) \in DOMAIN fs') =>
                  \E c \in Callers : /\ calls[c].pc = "idle"
                                     /\ calls'[c].pc = "writing"
                                     /\ calls'[c].name = k]_vars

\* Retrieve returned the file of the two-byte payload that a Store wrote
C18_Witness ==
    /\ backend = "local"
    /\ ret.op = "Resolve"
    /\ ret.called
    /\ ret.got.err = ""
    /\ ret.got.cleanup = "noop"
    /\ fs[ret.got.path] = <<1, 2>>

IsPrefix(s, t) == Len(s) <= Len(t) /\ s = SubSeq(t, 1, Len(s))

\* C19: Store calls of several callers, in any interleaving and also on one
\* key: every call that returns a result returns the key, the hash and the
\* size of its own payload, and the key then holds exactly that payload (on
\* the local backend unless a Delete removed the file meanwhile); at no time
\* does a key hold bytes of another payload (a local file holds a prefix of
\* its payload, an object all of it); a local file changes only by a Store or
\* a Delete of its own key; and the backend a caller uses never changes.
C19_ConcurrentStore ==
    /\ [](ret.op = "Store" /\ ret.err = "" =>
            /\ ret.res.objectKey = ret.key
            /\ ret.res.contentHash = Digest(ret.data)
            /\ ret.res.size = Len(ret.data)
            /\ IF backend = "remote"
               THEN ret.key \in DOMAIN bucket
                       /\ bucket[ret.key].data = ret.data
               ELSE ret.existed => fs[ret.res.location] = ret.data)
    /\ [](\A a \in StoreArgs :
            LET path == Join(BaseDir, Filename(a[1], a[2], a[3]))
            IN  (backend = "local" /\ path \in DOMAIN fs) =>
                   IsPrefix(fs[path], a[1]))
    /\ [](\A k \in DOMAIN bucket :
            \E a \in StoreArgs :
               /\ k = RemoteKey(bucket[k].createdAt, a[1], a[2], a[3])
               /\ bucket[k].data = a[1])
    /\ [][\A a \in StoreArgs :
            LET name == Filename(a[1], a[2], a[3])
                path == Join(BaseDir, name)
                before == IF path \in DOMAIN fs THEN <<fs[path]>> ELSE <<>>
                after == IF path \in DOMAIN fs' THEN <<fs'[path]>> ELSE <<>>
            IN  before # after =>
                   \/ \E c \in Callers : /\ calls'[c] # calls[c]
                                         /\ name \in {calls[c].name,
                                                      calls'[c].name}
                   \/ ret'.op = "Delete" /\ ret'.key = name]_vars
    /\ [][backend' = backend]_vars

\* two callers are writing the file of one key at the same time
C19_Witness ==
    /\ backend = "local"
    /\ \A c \in Callers : calls[c].pc = "writing" /\ calls[c].attached
    /\ \A c, e \in Callers : calls[c].path = calls[e].path
    /\ \E c \in Callers : fs[calls[c].path] = <<>>

\* C20: when the sweep comes to an expired entry whose object another
\* instance's sweep has removed since the listing, and the RemoveObject
\* request itself does not fail, the entry is not counted as an error, the
\* bucket is left as it is, and the tick goes on with the next entry.
C20_PeerRemovedIsNoError ==
    [][(SweepEntryStep /\ ret'.op = "RemoveObject" /\ ~ret'.existed
          /\ ret'.cause # "network") =>
            /\ errorCount' = errorCount
            /\ bucket' = bucket
            /\ sweepPc' = "tick"
            /\ listed' = Tail(listed)]_vars

\* the sweep has passed an entry that the other instance had removed
C20_Witness ==
    /\ sweepPc = "tick"
    /\ ret.op = "RemoveObject"
    /\ ~ret.existed
    /\ ret.cause = "nil"
    /\ errorCount = 0

\* C21: within a tick, an entry carrying a listing error and a RemoveObject
\* that fails each add one to the error count and leave the tick running;
\* whatever the listing delivers, every object that is expired when the tick
\* begins is among the entries the tick goes through; and a step of the
\* sweep returns nothing to a caller of Store or Delete.
C21_SweepContinues ==
    /\ [][(SweepEntryStep /\ Head(listed).err) =>
             /\ errorCount' = errorCount + 1
             /\ sweepPc' = "tick"]_vars
    /\ [][(SweepEntryStep /\ ret'.op = "RemoveObject" /\ ret'.cause # "nil") =>
             /\ errorCount' = errorCount + 1
             /\ sweepPc' = "tick"]_vars
    /\ [][(sweepPc = "select" /\ sweepPc' = "tick") =>
             \A k \in DOMAIN bucket :
                now - bucket[k].lastModified > ObjectTTL =>
                   \E i \in DOMAIN listed' : /\ ~listed'[i].err
                                             /\ listed'[i].key = k]_vars
    /\ [][(SweepEntryStep \/ sweepPc' # sweepPc) =>
             ret'.op \notin {"Store", "Delete"}]_vars

\* C22: NewStorage is all-or-nothing.  An instance whose construction failed
\* (minio.New, BucketExists, MakeBucket, or MkdirAll of the local backend)
\* was returned an error and no backend, and no sweep goroutine was started
\* for it; a backend is held only by an instance whose construction
\* returned no error; and while this instance has no backend there is no
\* sweep goroutine.
C22_AllOrNothing ==
    /\ \A i \in Instances :
         LET inst == boot.inst[i]
         IN  /\ inst.pc = "failed" =>
                  /\ inst.err \in {"client", "check", "create", "mkdir"}
                  /\ inst.storage = "nil"
                  /\ inst.sweeps = 0
             /\ inst.storage # "nil" => inst.pc = "done" /\ inst.err = ""
             /\ inst.pc # "done" => inst.sweeps = 0
    /\ (ret.op = "NewStorage" /\ ret.err # "") =>
          /\ boot.inst[ret.key[1]].pc = "failed"
          /\ boot.inst[ret.key[1]].err = ret.err
    /\ boot.inst[Self].pc # "done" => backend = "none" /\ sweepPc = "none"
    /\ backend = boot.inst[Self].storage \/ boot.inst[Self].storage = "nil"

\* MakeBucket failed for this instance after BucketExists had answered false
C22_Witness ==
    /\ ret.op = "NewStorage"
    /\ ret.key = <<Self>>
    /\ ret.err = "create"
    /\ ~boot.inst[Self].exists
    /\ backend = "none"

\* C23: calls and the sweep never wait for each other.  On the remote
\* backend a Store, a Delete and a Retrieve (through resolveInputPath) can
\* be taken in every reachable state, whatever the sweep goroutine is doing
\* (waiting in its select, in the middle of a tick, stopped); a tick that
\* is due can start and a tick in progress can take its next step in every
\* reachable state, whatever calls have been made; on the local backend,
\* which has no sweep, a Store can start and a Store in progress can go on.
C23_NoBlocking ==
    /\ backend = "remote" =>
          /\ \A a \in StoreArgs :
                ENABLED S3Store(a[1], a[2], a[3], FALSE, FALSE)
          /\ \A k \in RemoteKeys : ENABLED S3Delete(k, FALSE)
          /\ \A k \in RemoteKeys : ENABLED Resolve(k, FALSE)
    /\ (sweepPc = "select" /\ tickerC) => ENABLED SweepTick
    /\ sweepPc = "tick" => ENABLED (SweepEntry \/ SweepFinish)
    /\ (sweepPc = "select" /\ stopCleanup = "closed") => ENABLED SweepStop
    /\ backend = "local" =>
          \A c \in Callers :
             IF calls[c].pc = "idle"
             THEN \A a \in StoreArgs :
                     ENABLED LocalStoreOpen(c, a[1], a[2], a[3], FALSE)
             ELSE ENABLED LocalStoreWrite(c, Len(calls[c].data))

\* a Store has returned while a tick has entries left to handle
C23_Witness ==
    /\ sweepPc = "tick"
    /\ listed # <<>>
    /\ ret.op = "Store"
    /\ ret.err = ""

\* C24: IsRemote() answers false on the local backend and true on the
\* remote backend in every reachable state, and no step (Store, Delete,
\* Close, a step of the sweep) changes its answer.
C24_IsRemoteConstant ==
    /\ [](backend = "local" => IsRemote(backend) = FALSE)
    /\ [](backend = "remote" => IsRemote(backend) = TRUE)
    /\ [][IsRemote(backend)' = IsRemote(backend)]_vars

\* a remote backend that holds an object has been closed twice and its
\* sweep has stopped
C24_Witness ==
    /\ IsRemote(backend)
    /\ DOMAIN bucket # {}
    /\ closeCalls = MaxCloseCalls
    /\ sweepPc = "stopped"

\* the header is "Bearer " followed by exactly the token t
ExactBearer(h, t) == h = BearerPrefix \o t

\* the header is "Bearer " followed by the token t, with white space around
\* the token or not
PaddedBearer(h, t) ==
    /\ HasPrefix(h, BearerPrefix)
    /\ \E i, j \in 1..Len(h) :
         /\ i > Len(BearerPrefix)
         /\ SubSeq(h, i, j) = t
         /\ \A k \in (Len(BearerPrefix) + 1)..(i - 1) : h[k] \in {" ", "\t"}
         /\ \A k \in (j + 1)..Len(h) : h[k] \in {" ", "\t"}

\* C25 as stated: with a token configured, the wrapped handler is invoked
\* only for a header that is "Bearer " followed by a configured token, every
\* other request is answered 401 without invoking it; with no token
\* configured every request is passed on.
C25_BearerExact ==
    LET handled == http.served \/ http.status # 0
        valid == \E t \in http.tokens : ExactBearer(http.header, t)
    IN  /\ (http.tokens # {} /\ http.served) => valid
        /\ (http.tokens # {} /\ handled /\ ~valid) =>
              http.status = 401 /\ ~http.served
        /\ (http.tokens = {} /\ handled) => http.served

\* C25, amended: the same with the token taken as what follows "Bearer "
\* without its surrounding white space.
C25_BearerTrimmed ==
    LET handled == http.served \/ http.status # 0
        valid == \E t \in http.tokens : PaddedBearer(http.header, t)
    IN  /\ (http.tokens # {} /\ http.served) => valid
        /\ (http.tokens # {} /\ handled /\ ~valid) =>
              http.status = 401 /\ ~http.served
        /\ (http.tokens = {} /\ handled) => http.served

\* a request whose header has two blanks between "Bearer" and a configured
\* token was passed to the wrapped handler
C25_Witness ==
    /\ http.tokens # {}
    /\ http.served
    /\ http.header = BearerPrefix \o <<" ", "t">>

\* C26: once Close() has been called on the remote backend (the stop channel
\* is closed) the sweep goroutine starts no tick any more, a tick waiting in
\* ticker.C or not.
C26_NoTickAfterClose ==
    [][stopCleanup = "closed" => ~(sweepPc = "select" /\ sweepPc' = "tick")]_vars

\* C27: an instance has exactly one sweep goroutine if NewStorage returned a
\* remote backend to it, and none otherwise; the goroutine is started by the
\* step in which NewStorage returns the backend, and by no other step
\* (Store, Delete, Close, a tick); until Close() is called this instance's
\* goroutine is running (waiting in its select or in a tick).
C27_OneSweepTask ==
    /\ [](\A i \in Instances :
            boot.inst[i].sweeps =
               IF boot.inst[i].storage = "remote" THEN 1 ELSE 0)
    /\ [][\A i \in Instances :
            boot'.inst[i].sweeps # boot.inst[i].sweeps =>
               /\ ret'.op = "NewStorage"
               /\ ret'.key = <<i>>
               /\ ret'.err = ""
               /\ boot.inst[i].sweeps = 0]_vars
    /\ []((boot.inst[Self].sweeps = 1 /\ stopCleanup = "open") =>
             sweepPc \in {"select", "tick"})
    /\ [](boot.inst[Self].sweeps = 0 => sweepPc = "none")

\* both instances were constructed, and this one's goroutine, the only one
\* it has, is in a tick that has removed an object
C27_Witness ==
    /\ \A i \in Instances : boot.inst[i].sweeps = 1
    /\ sweepPc = "tick"
    /\ deletedCount = 1
    /\ stopCleanup = "open"

\* C28: a tick starts with both counts at zero; handling an entry adds one
\* to the deleted count exactly when RemoveObject returned success (the key
\* is then not in the bucket) and one to the error count exactly when the
\* entry carries a listing error or RemoveObject failed; no other step
\* changes the counts of a tick in progress; the end of the tick logs one
\* summary, carrying the two counts, when one of them is greater than zero,
\* and none when both are zero; and no other step logs a summary.
C28_Summary ==
    [][/\ (sweepPc = "select" /\ sweepPc' = "tick") =>
             deletedCount' = 0 /\ errorCount' = 0
       /\ SweepEntryStep =>
             LET removed == ret'.op = "RemoveObject" /\ ret'.cause = "nil"
                 failed == ret'.op = "RemoveObject" /\ ret'.cause # "nil"
             IN  /\ deletedCount' = deletedCount + (IF removed THEN 1 ELSE 0)
                 /\ errorCount' =
                       errorCount + (IF Head(listed).err \/ failed
                                     THEN 1 ELSE 0)
                 /\ removed => ret'.key \notin DOMAIN bucket'
       /\ (sweepPc = "tick" /\ sweepPc' = "tick" /\ ~SweepEntryStep) =>
             deletedCount' = deletedCount /\ errorCount' = errorCount
       /\ (sweepPc = "tick" /\ sweepPc' # "tick") =>
             /\ listed = <<>>
             /\ summary'.logged <=> (deletedCount > 0 \/ errorCount > 0)
             /\ summary'.logged =>
                   /\ summary'.deleted = deletedCount
                   /\ summary'.errors = errorCount
       /\ summary'.logged => (sweepPc = "tick" /\ sweepPc' # "tick")]_vars

\* a tick that met a listing error and removed nothing has logged its summary
C28_Witness ==
    /\ summary.logged
    /\ summary.deleted = 0
    /\ summary.errors = 1

\* C29: remote construction whose requests do not fail for a reason of
\* their own (minio.New returning an error, a failed request) succeeds and
\* leaves the bucket existing, whether the bucket was there or not and
\* whatever another instance that is being constructed does meanwhile.
C29_BootstrapIdempotent ==
    /\ (ret.op = "NewStorage" /\ boot.s3Enabled
          /\ ret.cause \notin {"minio.New", "network"}) =>
            /\ ret.err = ""
            /\ boot.inst[ret.key[1]].storage = "remote"
            /\ boot.bucketExists
    /\ \A i \in Instances :
          boot.inst[i].storage = "remote" => boot.bucketExists

\* what follows the first n characters of e, up to the next "/"
AuthorityAfter(e, n) ==
    LET after == SubSeq(e, n + 1, Len(e))
        stops == {i \in DOMAIN after : after[i] = "/"}
    IN  IF stops = {} THEN after
        ELSE SubSeq(after, 1, (CHOOSE i \in stops : \A j \in stops : i <= j) - 1)

\* e contains no "://"
SchemeLess(e) ==
    \A i \in 1..(Len(e) - 2) : SubSeq(e, i, i + 2) # <<":", "/", "/">>

\* C30: for an endpoint that begins with https:// the client is created with
\* TLS on, for one that begins with http:// with TLS off, whatever the flag,
\* and with the authority part as its host; for an endpoint without a scheme
\* (a host, or host:port) TLS is the configured flag and the host is the
\* endpoint unchanged.
C30_EndpointParsing ==
    \A i \in Instances :
       LET inst == boot.inst[i]
           e == boot.endpoint
           https == <<"h", "t", "t", "p", "s", ":", "/", "/">>
           plain == <<"h", "t", "t", "p", ":", "/", "/">>
       IN  inst.pc # "new" =>
              /\ HasPrefix(e, https) =>
                    inst.secure /\ inst.host = AuthorityAfter(e, Len(https))
              /\ HasPrefix(e, plain) =>
                    ~inst.secure /\ inst.host = AuthorityAfter(e, Len(plain))
              /\ SchemeLess(e) =>
                    inst.secure = boot.useSSL /\ inst.host = e

\* C31: an instance that NewStorage gave a backend got the remote one
\* exactly when S3 is enabled in the configuration; an instance with the
\* remote backend runs with transport http or sse (the transport in effect,
\* the -transport flag applied) and with endpoint, access key and secret key
\* all set; an instance whose transport is stdio has the local backend.
C31_BackendFollowsConfig ==
    \A i \in Instances :
       LET storage == boot.inst[i].storage
       IN  /\ storage # "nil" => (storage = "remote" <=> boot.s3Enabled)
           /\ storage = "remote" =>
                 /\ boot.transport \in {"http", "sse"}
                 /\ boot.endpoint # <<>>
                 /\ boot.accessKeyID # <<>>
                 /\ boot.secretAccessKey # <<>>
           /\ (storage # "nil" /\ boot.transport = "stdio") =>
                 storage = "local"

\* C32: a Store that uploads leaves under its key an object whose created-at
\* is the time of the call and whose expires-at is that time plus the object
\* TTL; every object in the bucket has expires-at = created-at + object TTL;
\* and a tick removes an object only when the tick's time is later than the
\* expires-at recorded on the object it removes.
C32_MetadataAndSweep ==
    /\ [](\A k \in DOMAIN bucket :
            bucket[k].expiresAt = bucket[k].createdAt + ObjectTTL)
    /\ [][(ret'.op = "Store" /\ ret'.cause = "nil" /\ backend = "remote") =>
             /\ ret'.key \in DOMAIN bucket'
             /\ bucket'[ret'.key].createdAt = now
             /\ bucket'[ret'.key].expiresAt = now + ObjectTTL]_vars
    /\ [][\A k \in DOMAIN bucket :
             (SweepEntryStep /\ k \notin DOMAIN bucket') =>
                tickNow > bucket[k].expiresAt]_vars

\* C33: a Store call that returns an error has changed nothing: on the
\* remote backend the bucket is as it was before the call, and on the local
\* backend the file of the call's key is absent or holds a complete payload
\* (nothing empty or cut short is left behind).
C33_FailedStoreLeavesNothing ==
    [][(ret'.op = "Store" /\ ret'.err # "") =>
          IF backend = "remote"
          THEN bucket' = bucket
          ELSE LET path == Join(BaseDir, ret'.key)
               IN  path \in DOMAIN fs' => fs'[path] \in Payloads]_vars

\* C34: on the local backend, a Retrieve (called by resolveInputPath) that
\* succeeds for a key whose file a Store call is writing at that moment
\* returns the path of a file that holds a complete payload.
C34_NoPartialRetrieve ==
    (/\ backend = "local"
     /\ ret.op = "Resolve"
     /\ ret.called
     /\ ret.got.err = ""
     /\ \E c \in Callers : /\ calls[c].pc = "writing"
                           /\ calls[c].attached
                           /\ calls[c].path = ret.got.path) =>
        fs[ret.got.path] \in Payloads

\* ------------------------------------------- the base directory
\* A prefix and an object key that name a place outside the base directory:
\* upload_media passes its prefix to Store as it is, and resolveInputPath
\* passes every input path without a leading "/" to Retrieve as it is.
DotDotPrefix == <<".", ".", "/", "x">>
DotDotKey == <<".", ".", "/", "a">>

\* the (data, mimeType, prefix) triples of upload_media
UploadArgs ==
    {<<<<3>>, "image/png", <<"g">>>>, <<<<3>>, "image/png", DotDotPrefix>>}

\* the object keys and input paths callers pass
ConfineKeys == {RelLocalTwin, Nowhere, DotDotKey}

\* The local backend over the initial files, one of them (AbsHere) outside
\* the base directory.
InitConfine == Started("local", 0, NoObjects, InitialFiles)

ConfineSteps ==
    \/ \E c \in Callers, a \in UploadArgs, fails \in BOOLEAN :
         LocalStoreOpen(c, a[1], a[2], a[3], fails)
    \/ \E c \in Callers : \E n \in 0..Len(calls[c].data) : LocalStoreWrite(c, n)
    \/ \E k \in ConfineKeys, fails \in BOOLEAN : LocalDelete(k, fails)
    \/ \E inputPath \in ConfineKeys, fails \in BOOLEAN :
         Resolve(inputPath, fails)
    \/ HandlerExit

SpecConfine == InitConfine /\ [][ConfineSteps]_vars

\* path names a file below the base directory
UnderBaseDir(path) == HasPrefix(path, BaseDir \o <<"/">>)

\* the files a step creates, writes or removes
Touched ==
    {f \in DOMAIN fs \cup DOMAIN fs' :
       \/ (f \in DOMAIN fs) # (f \in DOMAIN fs')
       \/ f \in DOMAIN fs /\ f \in DOMAIN fs' /\ fs[f] # fs'[f]}

\* C35: on the local backend, every file a Store or a Delete creates, writes
\* or removes, and every file a successful Retrieve names, lies under the
\* base directory, whatever prefix or object key the call was given.
C35_Confined ==
    [][backend = "local" =>
         /\ \A f \in Touched : UnderBaseDir(f)
         /\ (ret'.op = "Resolve" /\ ret'.called /\ ret'.got.err = "") =>
                UnderBaseDir(ret'.got.path)]_vars

\* ------------------------------------------- the video handlers' polling
\* maxAttempts := 60
MaxAttempts == 60

VeoTools == {"veo_generate_video", "veo_image_to_video"}

\* the states of an operation the API reports
Reported ==
    {Operation(FALSE, FALSE, 0), Operation(TRUE, TRUE, 0),
     Operation(TRUE, FALSE, 0), Operation(TRUE, FALSE, 1)}

\* GenerateVideos returned an operation and no error.
VeoStart(tool, op) ==
    /\ veo.pc = "idle"
    /\ veo' = [NoVeo EXCEPT !.pc = "loop", !.tool = tool, !.operation = op,
                            !.last = op]
    /\ UNCHANGED <<http, boot, handler, backend, now, bucket, fs, stopCleanup,
                   sweepPc, tickerC, lastTick, tickNow, listed, deletedCount,
                   errorCount, summary, calls, closeCalls, held, ret>>

\* i < maxAttempts && !operation.Done
LoopCondition(i, operation) == i < MaxAttempts /\ ~operation.done

\* What GetVideosOperation returns: the operation as reported and a nil
\* error, or a nil operation and the error.
GetVideosOperation(fails, op) ==
    IF fails THEN [operation |-> NilOperation, err |-> "status"]
    ELSE [operation |-> op, err |-> ""]

\* One pass of the loop: sleep, GetVideosOperation, assigned to operation
\* and err; an error breaks out of the loop before i++.
VeoCheck(fails, op) ==
    LET got == GetVideosOperation(fails, op)
    IN  /\ veo.pc = "loop"
        /\ LoopCondition(veo.i, veo.operation)
        /\ veo' = IF got.err # ""
                  THEN [veo EXCEPT !.operation = got.operation,
                                   !.checks = @ + 1, !.failed = TRUE,
                                   !.pc = "broke"]
                  ELSE [veo EXCEPT !.operation = got.operation,
                                   !.last = got.operation,
                                   !.checks = @ + 1, !.i = @ + 1]
        /\ UNCHANGED <<http, boot, handler, backend, now, bucket, fs,
                       stopCleanup, sweepPc, tickerC, lastTick, tickNow,
                       listed, deletedCount, errorCount, summary, calls,
                       closeCalls, held, ret>>

\* The status the handler reports for a non-nil operation.
VeoStatusOf(operation) ==
    IF operation.done
    THEN IF operation.error THEN "failed"
         ELSE IF operation.videos > 0 THEN "completed"
         ELSE "generating"
    ELSE "timeout"

\* After the loop: "if operation.Done" reads through the pointer, which
\* panics when it is nil; else the status is set.  (The download and the
\* Store of a completed video follow; they leave the status alone.)
VeoStatus ==
    /\ \/ veo.pc = "broke"
       \/ veo.pc = "loop" /\ ~LoopCondition(veo.i, veo.operation)
    /\ veo' = IF veo.operation.nil
              THEN [veo EXCEPT !.pc = "panicked"]
              ELSE [veo EXCEPT !.pc = "returned",
                               !.status = VeoStatusOf(veo.operation)]
    /\ UNCHANGED <<http, boot, handler, backend, now, bucket, fs, stopCleanup,
                   sweepPc, tickerC, lastTick, tickNow, listed, deletedCount,
                   errorCount, summary, calls, closeCalls, held, ret>>

VeoSteps ==
    \/ \E tool \in VeoTools, op \in Reported : VeoStart(tool, op)
    \/ \E fails \in BOOLEAN, op \in Reported : VeoCheck(fails, op)
    \/ VeoStatus

\* A video handler over a backend that no one else calls.
InitVeo ==
    \E b \in {"local", "remote"} : Started(b, 0, NoObjects, InitialFiles)

SpecVeo == InitVeo /\ [][VeoSteps]_vars

\* C36: a video handler makes at most 60 status checks; it never panics;
\* and when it has left the loop, its status is "completed" only if the
\* operation is done without an error and with a video, "failed" if the
\* operation is done with an error, and "timeout" if the operation was not
\* done when the polling ended, be it after 60 checks or after a check that
\* returned an error.
C36_PollingOutcome ==
    /\ veo.checks <= MaxAttempts
    /\ veo.pc # "panicked"
    /\ veo.pc = "returned" =>
         /\ veo.status = "completed" =>
              veo.last.done /\ ~veo.last.error /\ veo.last.videos > 0
         /\ (veo.last.done /\ veo.last.error) => veo.status = "failed"
         /\ ~veo.last.done => veo.status = "timeout"

====
